---- MODULE Spec2Model ----
(***************************************************************************)
(* Five-stage RISC-V pipeline simulator with split LRU caches.             *)
(*   - Cache            : src/project2/src/cache.cpp (lines 1-178)         *)
(*   - pipeline control : src/unnamed/part_001 (initSimulator, runCycles)  *)
(*   - pipeline control with the halted flag : src/project2/src/cycle.cpp  *)
(*     (second initSimulator / runCycles, lines 412-721)                   *)
(***************************************************************************)
EXTENDS Integers, Sequences, FiniteSets, TLC

(***************************************************************************)
(* Bounds of the model                                                     *)
(***************************************************************************)
\* largest address handed to a stand-alone cache
MaxAddress == 4
\* largest number of access() calls on a stand-alone cache
MaxAccesses == 4

\* cycles simulated after initSimulator
MaxCycles == 10

\* largest cycles argument of runCycles
MaxCall == 2

(***************************************************************************)
(* Cache (cache.cpp)                                                       *)
(***************************************************************************)
CacheOperations == {"CACHE_READ", "CACHE_WRITE"}

\* CacheConfig values: {cacheSize, blockSize, ways, missLatency}
CacheConfig(cacheSize, blockSize, ways, missLatency) ==
    [cacheSize |-> cacheSize, blockSize |-> blockSize, ways |-> ways,
     missLatency |-> missLatency]

\* floor(log2 x) for x >= 1, computed by repeated halving
RECURSIVE intLog2(_)
intLog2(x) == IF x > 1 THEN 1 + intLog2(x \div 2) ELSE 0

\* 1ULL << n
RECURSIVE shl1(_)
shl1(n) == IF n = 0 THEN 1 ELSE 2 * shl1(n - 1)

\* the constructor: counters at zero, [set][way] arrays allocated unless the
\* configuration has no set or no way, in which case the arrays stay empty
Cache(config) ==
    LET numBlocks == config.cacheSize \div config.blockSize
        numSets   == IF config.ways = 0 THEN 0 ELSE numBlocks \div config.ways
        empty     == numSets = 0 \/ config.ways = 0
        sets      == IF empty THEN {} ELSE 0 .. (numSets - 1)
        wayIds    == IF empty THEN {} ELSE 0 .. (config.ways - 1)
    IN  [hits       |-> 0,
         misses     |-> 0,
         time       |-> 0,
         config     |-> config,
         numSets    |-> numSets,
         numBlocks  |-> numBlocks,
         cacheArray |-> [s \in sets |-> [w \in wayIds |-> 0]],
         validBits  |-> [s \in sets |-> [w \in wayIds |-> FALSE]],
         LRUCounter |-> [s \in sets |-> [w \in wayIds |-> 0]]]

\* the guard that opens access() and invalidate()
misconfigured(c) ==
    c.numSets = 0 \/ c.config.ways = 0 \/ c.config.blockSize = 0

blockOffsetBits(c) == intLog2(c.config.blockSize)

indexBits(c) == IF c.numSets > 1 THEN intLog2(c.numSets) ELSE 0

\* set index of an address, clamped into range
index(c, address) ==
    LET raw == IF indexBits(c) = 0 THEN 0
               ELSE (address \div shl1(blockOffsetBits(c))) % shl1(indexBits(c))
    IN  IF raw >= c.numSets THEN raw % c.numSets ELSE raw

tag(c, address) == address \div shl1(blockOffsetBits(c) + indexBits(c))

\* a first loop that looks at way 0 only
hitWay_wayZero(c, idx, tg, way) ==
    IF c.config.ways > 0 /\ c.validBits[idx][0] /\ c.cacheArray[idx][0] = tg
    THEN 0
    ELSE c.config.ways

\* first loop of access(): the first valid way of the set holding the tag,
\* config.ways when the loop runs out
RECURSIVE hitWay(_, _, _, _)
hitWay(c, idx, tg, way) ==
    IF way >= c.config.ways THEN c.config.ways
    ELSE IF c.validBits[idx][way] /\ c.cacheArray[idx][way] = tg THEN way
    ELSE hitWay(c, idx, tg, way + 1)

\* a scan that never finds an invalid way
invalidWay_none(c, idx, way) == c.config.ways

\* second loop of access(): the first invalid way, config.ways when all valid
RECURSIVE invalidWay(_, _, _)
invalidWay(c, idx, way) ==
    IF way >= c.config.ways THEN c.config.ways
    ELSE IF ~c.validBits[idx][way] THEN way
    ELSE invalidWay(c, idx, way + 1)

\* a scan that keeps the largest stamp instead of the smallest
RECURSIVE lruWay_mru(_, _, _, _)
lruWay_mru(c, idx, way, lru) ==
    IF way >= c.config.ways THEN lru
    ELSE IF c.LRUCounter[idx][way] > c.LRUCounter[idx][lru]
         THEN lruWay_mru(c, idx, way + 1, way)
         ELSE lruWay_mru(c, idx, way + 1, lru)

\* third loop of access(): lruWay starts at 0 and moves to every way with a
\* strictly smaller stamp
RECURSIVE lruWay(_, _, _, _)
lruWay(c, idx, way, lru) ==
    IF way >= c.config.ways THEN lru
    ELSE IF c.LRUCounter[idx][way] < c.LRUCounter[idx][lru]
         THEN lruWay(c, idx, way + 1, way)
         ELSE lruWay(c, idx, way + 1, lru)

\* a hit that counts but does not restamp the way
onHit_nostamp(c, idx, way) ==
    [c EXCEPT !.hits = @ + 1, !.time = @ + 1]

\* hit branch: ++hits; LRUCounter[index][way] = ++time
onHit(c, idx, way) ==
    [c EXCEPT !.hits = @ + 1,
              !.time = @ + 1,
              !.LRUCounter[idx][way] = c.time + 1]

\* an install that forgets to set the valid bit
install_novalid(c, idx, way, tg) ==
    [c EXCEPT !.cacheArray[idx][way] = tg,
              !.time = @ + 1,
              !.LRUCounter[idx][way] = c.time + 1]

\* install: tag written, way marked valid, LRUCounter[index][way] = ++time
install(c, idx, way, tg) ==
    [c EXCEPT !.cacheArray[idx][way] = tg,
              !.validBits[idx][way] = TRUE,
              !.time = @ + 1,
              !.LRUCounter[idx][way] = c.time + 1]

\* a misconfigured access that returns miss and counts nothing
onMisconfigured_silent(c) == c

\* misconfigured branch of access(): ++misses; return false
onMisconfigured(c) == [c EXCEPT !.misses = @ + 1]

\* access(address, readWrite): the new cache and the returned hit flag
access(c, address, readWrite) ==
    IF misconfigured(c)
    THEN [cache |-> onMisconfigured(c), hit |-> FALSE]
    ELSE LET idx == index(c, address)
             tg  == tag(c, address)
             hw  == hitWay(c, idx, tg, 0)
         IN  IF hw < c.config.ways
             THEN [cache |-> onHit(c, idx, hw), hit |-> TRUE]
             ELSE LET m  == [c EXCEPT !.misses = @ + 1]
                      iw == invalidWay(c, idx, 0)
                  IN  IF iw < c.config.ways
                      THEN [cache |-> install(m, idx, iw, tg), hit |-> FALSE]
                      ELSE [cache |-> install(m, idx, lruWay(c, idx, 1, 0), tg),
                            hit |-> FALSE]

\* an invalidate that clears nothing
invalidate_noop(c, address) == c

\* an invalidate that clears the whole indexed set
invalidate_set(c, address) ==
    IF misconfigured(c) THEN c
    ELSE [c EXCEPT !.validBits[index(c, address)] =
                        [w \in DOMAIN @ |-> FALSE]]

\* invalidate(address): clears the valid bit of the first matching valid way
invalidate(c, address) ==
    IF misconfigured(c) THEN c
    ELSE LET idx == index(c, address)
             hw  == hitWay(c, idx, tag(c, address), 0)
         IN  IF hw < c.config.ways
             THEN [c EXCEPT !.validBits[idx][hw] = FALSE]
             ELSE c

(***************************************************************************)
(* Functional semantics (class Simulator, class MemoryStore): the stages'  *)
(* pure functions, over a three-register machine and a few instructions    *)
(***************************************************************************)
\* bound of the memory store; addresses at or above it raise the exception
MEMORY_SIZE == 1048576

\* address of the exception handler
HandlerPC == 32768

StageStatuses == {"IDLE", "NORMAL", "SPECULATIVE", "SQUASHED", "BUBBLE"}

Registers == 0 .. 2

\* Simulator::Instruction as default-constructed
Instruction ==
    [instruction |-> "00000000", PC |-> 0, nextPC |-> 0, opcode |-> "OP_NONE",
     fn |-> "none", rs1 |-> 0, rs2 |-> 0, rd |-> 0, imm |-> 0,
     readsRs1 |-> FALSE, readsRs2 |-> FALSE, writesRd |-> FALSE,
     readsMem |-> FALSE, writesMem |-> FALSE, doesArithLogic |-> FALSE,
     op1Val |-> 0, op2Val |-> 0, arithResult |-> 0,
     memAddress |-> 0, memResult |-> 0,
     isNop |-> FALSE, isHalt |-> FALSE, isLegal |-> FALSE,
     status |-> "NORMAL"]

\* what decode reads off an instruction word
Decoded(opcode, fn, rd, rs1, rs2, imm, r1, r2, w, rm, wm, al) ==
    [opcode |-> opcode, fn |-> fn, rd |-> rd, rs1 |-> rs1, rs2 |-> rs2,
     imm |-> imm, readsRs1 |-> r1, readsRs2 |-> r2, writesRd |-> w,
     readsMem |-> rm, writesMem |-> wm, doesArithLogic |-> al,
     isHalt |-> (fn = "halt"), isLegal |-> (fn # "illegal")]

\* the instruction words of the programs
Decode(word) ==
    CASE word = "addi x1,x0,1"  ->
             Decoded("OP_IMM", "addi", 1, 0, 0, 1,
                     TRUE, FALSE, TRUE, FALSE, FALSE, TRUE)
      [] word = "lui x1,0x100"  ->
             Decoded("OP_LUI", "lui", 1, 0, 0, MEMORY_SIZE,
                     FALSE, FALSE, TRUE, FALSE, FALSE, TRUE)
      [] word = "add x2,x1,x1"  ->
             Decoded("OP_INTREG", "add", 2, 1, 1, 0,
                     TRUE, TRUE, TRUE, FALSE, FALSE, TRUE)
      [] word = "lw x1,64(x0)"  ->
             Decoded("OP_LOAD", "lw", 1, 0, 0, 64,
                     TRUE, FALSE, TRUE, TRUE, FALSE, FALSE)
      [] word = "lw x2,64(x1)"  ->
             Decoded("OP_LOAD", "lw", 2, 1, 0, 64,
                     TRUE, FALSE, TRUE, TRUE, FALSE, FALSE)
      [] word = "lw x1,64(x1)"  ->
             Decoded("OP_LOAD", "lw", 1, 1, 0, 64,
                     TRUE, FALSE, TRUE, TRUE, FALSE, FALSE)
      [] word = "sw x1,64(x0)"  ->
             Decoded("OP_STORE", "sw", 0, 0, 1, 64,
                     TRUE, TRUE, FALSE, FALSE, TRUE, FALSE)
      [] word = "sw x2,64(x1)"  ->
             Decoded("OP_STORE", "sw", 0, 1, 2, 64,
                     TRUE, TRUE, FALSE, FALSE, TRUE, FALSE)
      [] word = "beq x1,x0,8"   ->
             Decoded("OP_BRANCH", "beq", 0, 1, 0, 8,
                     TRUE, TRUE, FALSE, FALSE, FALSE, FALSE)
      [] word = "jalr x0,0(x1)" ->
             Decoded("OP_JALR", "jalr", 0, 1, 0, 0,
                     TRUE, FALSE, TRUE, FALSE, FALSE, TRUE)
      [] word = "feedfeed"      ->
             Decoded("OP_HALT", "halt", 0, 0, 0, 0,
                     FALSE, FALSE, FALSE, FALSE, FALSE, FALSE)
      [] OTHER                  ->
             Decoded("OP_NONE", "illegal", 0, 0, 0, 0,
                     FALSE, FALSE, FALSE, FALSE, FALSE, FALSE)

\* architectural next PC of a decoded instruction with its operands read
resolvedNextPC(inst) ==
    CASE inst.fn = "beq"  -> IF inst.op1Val = inst.op2Val
                             THEN inst.PC + inst.imm ELSE inst.PC + 4
      [] inst.fn = "jalr" -> 2 * ((inst.op1Val + inst.imm) \div 2)
      [] OTHER            -> inst.PC + 4

\* the word the memory image holds at pc: the program, then halt words
fetchWord(program, pc) ==
    IF pc % 4 = 0 /\ pc \div 4 < Len(program)
    THEN program[(pc \div 4) + 1]
    ELSE "feedfeed"

\* simIF(pc): the word at pc
simIF(s, pc) ==
    [Instruction EXCEPT !.PC = pc, !.instruction = fetchWord(s.program, pc)]

\* simID(inst): decode, operands from the register file, initial nextPC
simID(s, inst) ==
    IF inst.isNop THEN [inst EXCEPT !.nextPC = inst.PC + 4]
    ELSE LET d == Decode(inst.instruction)
             i == [f \in DOMAIN inst |->
                       IF f \in DOMAIN d THEN d[f] ELSE inst[f]]
             o == [i EXCEPT !.op1Val = s.reg[d.rs1], !.op2Val = s.reg[d.rs2]]
         IN  [o EXCEPT !.nextPC = resolvedNextPC(o)]

\* simNextPCResolution(inst): nextPC again from the (forwarded) operands
simNextPCResolution(s, inst) ==
    [inst EXCEPT !.nextPC = resolvedNextPC(inst)]

\* simEX(inst): ALU result and memory address
simEX(s, inst) ==
    IF inst.isNop \/ ~inst.isLegal THEN inst
    ELSE [inst EXCEPT
             !.arithResult =
                 CASE inst.fn = "addi" -> inst.op1Val + inst.imm
                   [] inst.fn = "add"  -> inst.op1Val + inst.op2Val
                   [] inst.fn = "lui"  -> inst.imm
                   [] inst.fn = "jalr" -> inst.PC + 4
                   [] OTHER            -> 0,
             !.memAddress =
                 IF inst.readsMem \/ inst.writesMem
                 THEN inst.op1Val + inst.imm ELSE 0]

\* the memory store reads zero where nothing was written
memRead(s, address) ==
    IF address \in DOMAIN s.mem THEN s.mem[address] ELSE 0

\* simMEM(inst): a load reads memory, a store writes it
simMEM(s, inst) ==
    IF inst.isNop \/ ~inst.isLegal THEN [inst |-> inst, sim |-> s]
    ELSE IF inst.readsMem
    THEN [inst |-> [inst EXCEPT !.memResult = memRead(s, inst.memAddress)],
          sim |-> s]
    ELSE IF inst.writesMem
    THEN [inst |-> inst,
          sim |-> [s EXCEPT !.mem = [a \in DOMAIN @ \cup {inst.memAddress} |->
                                        IF a = inst.memAddress
                                        THEN inst.op2Val ELSE @[a]]]]
    ELSE [inst |-> inst, sim |-> s]

\* simWB(inst): the register write, and the count of retired instructions
simWB(s, inst) ==
    IF inst.isNop \/ ~inst.isLegal THEN [inst |-> inst, sim |-> s]
    ELSE [inst |-> inst,
          sim |-> [s EXCEPT
                      !.din = @ + 1,
                      !.reg = IF inst.writesRd /\ inst.rd # 0
                              THEN [@ EXCEPT ![inst.rd] =
                                        IF inst.readsMem THEN inst.memResult
                                        ELSE inst.arithResult]
                              ELSE @]]

\* the simulator over a memory image: registers at zero, one data word set
Simulator(program) ==
    [program |-> program,
     reg     |-> [r \in Registers |-> 0],
     mem     |-> [a \in {64} |-> 9],
     din     |-> 0]

(***************************************************************************)
(* Pipeline control (part_001): one iteration of the loop of runCycles,    *)
(* as a function of the simulator state                                    *)
(*   S = [pipelineInfo, PC, loadStallCount, stallCyclesCount,              *)
(*        iCacheStallCycles, dCacheStallCycles, iCache, dCache, simulator] *)
(* and of the local status, giving the new S and status                    *)
(***************************************************************************)
\* a NOP built without the isNop flag
nop_unflagged(status) ==
    [Instruction EXCEPT !.instruction = "00000013", !.isLegal = TRUE,
                        !.status = status]

\* nop(status): the NOP word, legal, marked isNop
nop(status) ==
    [Instruction EXCEPT !.instruction = "00000013", !.isLegal = TRUE,
                        !.isNop = TRUE, !.status = status]

\* a forwarding that looks at MEM before EX
forwarding_memFirst(rs, readsRs, opVal, exPrev, memPrev) ==
    IF ~readsRs \/ rs = 0 THEN opVal
    ELSE IF memPrev.writesRd /\ memPrev.rd = rs /\ memPrev.readsMem
    THEN memPrev.memResult
    ELSE IF memPrev.writesRd /\ memPrev.rd = rs /\ memPrev.doesArithLogic
    THEN memPrev.arithResult
    ELSE IF exPrev.writesRd /\ exPrev.rd = rs /\ exPrev.doesArithLogic
    THEN exPrev.arithResult
    ELSE opVal

\* forwarding(rs, readsRs, opVal, exPrev, memPrev): the operand after
\* forwarding from EX (arith) or MEM (load, then arith)
forwarding(rs, readsRs, opVal, exPrev, memPrev) ==
    IF ~readsRs \/ rs = 0 THEN opVal
    ELSE IF exPrev.writesRd /\ exPrev.rd = rs /\ exPrev.doesArithLogic
    THEN exPrev.arithResult
    ELSE IF memPrev.writesRd /\ memPrev.rd = rs
    THEN IF memPrev.readsMem THEN memPrev.memResult
         ELSE IF memPrev.doesArithLogic THEN memPrev.arithResult
         ELSE opVal
    ELSE opVal

\* both operands of an instruction forwarded
forwardBoth(inst, exPrev, memPrev) ==
    [inst EXCEPT
        !.op1Val = forwarding(inst.rs1, inst.readsRs1, @, exPrev, memPrev),
        !.op2Val = forwarding(inst.rs2, inst.readsRs2, @, exPrev, memPrev)]

\* a D-miss stall iteration that leaves dCacheStallCycles as it is
dStallCycle_stuck(S, status) ==
    LET p  == S.pipelineInfo
        wb == simWB(S.simulator, p.memInst)
    IN  [S      |-> [S EXCEPT !.pipelineInfo = [p EXCEPT !.wbInst = wb.inst],
                              !.simulator = wb.sim],
         status |-> IF wb.inst.isHalt THEN "HALT" ELSE status,
         kind   |-> "dStall",
         rule   |-> "none",
         dMiss  |-> FALSE,
         fetch  |-> FALSE]

\* the D-miss stall iteration: IF, ID, EX, MEM held, WB takes memPrev again
dStallCycle(S, status) ==
    LET p    == S.pipelineInfo
        wb   == simWB(S.simulator, p.memInst)
        bad  == p.ifInst.PC >= MEMORY_SIZE
        ifI  == IF bad THEN simIF(S.simulator, HandlerPC) ELSE p.ifInst
        st1  == IF bad THEN "ERROR" ELSE status
        st2  == IF wb.inst.isHalt THEN "HALT" ELSE st1
    IN  [S      |-> [S EXCEPT !.pipelineInfo = [p EXCEPT !.ifInst = ifI,
                                                        !.wbInst = wb.inst],
                              !.simulator = wb.sim,
                              !.dCacheStallCycles = @ - 1],
         status |-> st2,
         kind   |-> "dStall",
         rule   |-> "none",
         dMiss  |-> FALSE,
         fetch  |-> FALSE]

\* a hand-over to MEM that forwards nothing
exToMemOf_never(exPrev, wbPrev) == exPrev

\* store data forwarded from the load in WB
exToMemOf(exPrev, wbPrev) ==
    IF /\ exPrev.writesMem /\ ~exPrev.readsMem
       /\ exPrev.readsRs2 /\ exPrev.rs2 # 0
       /\ wbPrev.writesRd /\ wbPrev.rd = exPrev.rs2 /\ wbPrev.readsMem
    THEN [exPrev EXCEPT !.op2Val = wbPrev.memResult]
    ELSE exPrev

\* a test that takes only loads for memory instructions
needDataOf_loads(inst) == inst.readsMem

needDataOf(inst) == inst.readsMem \/ inst.writesMem

\* a check that lets every address through
memErrorOf_never(inst) == FALSE

memErrorOf(inst) == needDataOf(inst) /\ inst.memAddress >= MEMORY_SIZE

\* the memory-exception iteration: memPrev retires, everything younger is
\* squashed, both cache stalls cleared, PC at the handler
memErrorCycle(S, status) ==
    LET wb == simWB(S.simulator, S.pipelineInfo.memInst)
    IN  [S      |-> [S EXCEPT !.pipelineInfo =
                                  [ifInst  |-> nop("SQUASHED"),
                                   idInst  |-> nop("SQUASHED"),
                                   exInst  |-> nop("SQUASHED"),
                                   memInst |-> nop("SQUASHED"),
                                   wbInst  |-> wb.inst],
                              !.simulator = wb.sim,
                              !.PC = HandlerPC,
                              !.iCacheStallCycles = 0,
                              !.dCacheStallCycles = 0],
         status |-> "ERROR",
         kind   |-> "memError",
         rule   |-> "none",
         dMiss  |-> FALSE,
         fetch  |-> FALSE]

\* a miss that forgets to start the stall
missStall_none(c) == 0

\* the stall a miss starts: config.missLatency
missStall(c) == c.config.missLatency

\* MEM and WB of an iteration without exception: the D-cache access of a
\* memory instruction, simMEM(exToMem), simWB(memPrev)
memStage(S, exToMem) ==
    LET acc == IF needDataOf(exToMem)
               THEN access(S.dCache, exToMem.memAddress,
                           IF exToMem.readsMem THEN "CACHE_READ"
                           ELSE "CACHE_WRITE")
               ELSE [cache |-> S.dCache, hit |-> TRUE]
        m   == simMEM(S.simulator, exToMem)
        wb  == simWB(m.sim, S.pipelineInfo.memInst)
    IN  [memInst   |-> m.inst,
         wbInst    |-> wb.inst,
         simulator |-> wb.sim,
         dCache    |-> acc.cache,
         dMiss     |-> ~acc.hit,
         dCacheStallCycles |-> IF ~acc.hit THEN missStall(S.dCache)
                               ELSE S.dCacheStallCycles]

isBranch(inst) == inst.opcode \in {"OP_BRANCH", "OP_JAL", "OP_JALR"}

\* ID reads, as rs1 / as rs2, the register EX writes
hazardRs1(idPrev, exPrev) == idPrev.readsRs1 /\ idPrev.rs1 = exPrev.rd

hazardRs2(idPrev, exPrev) == idPrev.readsRs2 /\ idPrev.rs2 = exPrev.rd

\* a load-use test that also stalls a store on its data register
loadUseOf_store(idPrev, exPrev) ==
    /\ exPrev.readsMem /\ exPrev.writesRd /\ exPrev.rd # 0
    /\ ~isBranch(idPrev)
    /\ (hazardRs1(idPrev, exPrev) \/ hazardRs2(idPrev, exPrev))

\* loadUse: a load in EX, no control instruction in ID, and ID reads the
\* loaded register as rs1, or as rs2 unless it is a store
loadUseOf(idPrev, exPrev) ==
    /\ exPrev.readsMem /\ exPrev.writesRd /\ exPrev.rd # 0
    /\ ~isBranch(idPrev)
    /\ \/ hazardRs1(idPrev, exPrev)
       \/ hazardRs2(idPrev, exPrev)
          /\ ~(idPrev.writesMem /\ ~idPrev.readsMem)

\* the test of the arith-branch stall, without its !StallID
arithBranchOf(idPrev, exPrev) ==
    /\ exPrev.doesArithLogic /\ exPrev.writesRd /\ exPrev.rd # 0
    /\ isBranch(idPrev)
    /\ (hazardRs1(idPrev, exPrev) \/ hazardRs2(idPrev, exPrev))

\* the test of the load-branch stall, without its !StallID
loadBranchOf(idPrev, exPrev) ==
    /\ exPrev.readsMem /\ exPrev.writesRd /\ exPrev.rd # 0
    /\ isBranch(idPrev)
    /\ (hazardRs1(idPrev, exPrev) \/ hazardRs2(idPrev, exPrev))

\* the rule that sets StallID when stallCyclesCount is 0: load-use first,
\* then arith-branch, then load-branch, each only if nothing stalled before
hazardRule(idPrev, exPrev) ==
    IF loadUseOf(idPrev, exPrev) THEN "loadUse"
    ELSE IF arithBranchOf(idPrev, exPrev) THEN "arithBranch"
    ELSE IF loadBranchOf(idPrev, exPrev) THEN "loadBranch"
    ELSE "none"

\* an effect that counts the arith-branch stall as a load stall
hazardEffect_counts(S, rule) ==
    [rule     |-> rule,
     StallID  |-> rule # "none",
     BubbleEx |-> rule # "none",
     stallCyclesCount |-> IF rule = "second" THEN S.stallCyclesCount - 1
                          ELSE IF rule = "loadBranch" THEN 1
                          ELSE S.stallCyclesCount,
     loadStallCount |-> IF rule \in {"loadUse", "loadBranch", "arithBranch"}
                        THEN S.loadStallCount + 1
                        ELSE S.loadStallCount]

\* the effect of a rule on StallID, BubbleEx and the two counters
hazardEffect(S, rule) ==
    [rule     |-> rule,
     StallID  |-> rule # "none",
     BubbleEx |-> rule # "none",
     stallCyclesCount |-> IF rule = "second" THEN S.stallCyclesCount - 1
                          ELSE IF rule = "loadBranch" THEN 1
                          ELSE S.stallCyclesCount,
     loadStallCount |-> IF rule \in {"loadUse", "loadBranch"}
                        THEN S.loadStallCount + 1
                        ELSE S.loadStallCount]

\* hazard detection: the second load-branch cycle, else the rule that fires
hazard(S, idPrev, exPrev) ==
    hazardEffect(S, IF S.stallCyclesCount > 0 THEN "second"
                    ELSE hazardRule(idPrev, exPrev))

\* IF stage, PC sanity check and halt check, given the decisions before them:
\* illegal (illegal instruction in ID), squashIF (taken branch), hold (StallID
\* or an I-miss stall in progress), and the PC to fetch from
ifStage(S, status, ms, hz, exInst, idInst, PC1, illegal, squashIF) ==
    LET iStall   == S.iCacheStallCycles > 0
        iStall1  == IF illegal \/ squashIF THEN 0 ELSE S.iCacheStallCycles
        skip     == illegal \/ squashIF \/ hz.StallID
        doFetch  == ~skip /\ ~iStall
        acc      == IF doFetch THEN access(S.iCache, PC1, "CACHE_READ")
                    ELSE [cache |-> S.iCache, hit |-> TRUE]
        ifInst0  == IF illegal \/ squashIF THEN nop("SQUASHED")
                    ELSE IF hz.StallID \/ iStall THEN S.pipelineInfo.ifInst
                    ELSE [simIF(ms.simulator, PC1) EXCEPT
                              !.status = "SPECULATIVE"]
        bad      == ifInst0.PC >= MEMORY_SIZE
        st1      == IF illegal \/ bad THEN "ERROR" ELSE status
    IN  [S      |-> [pipelineInfo      |->
                         [ifInst  |-> IF bad
                                      THEN simIF(ms.simulator, HandlerPC)
                                      ELSE ifInst0,
                          idInst  |-> idInst,
                          exInst  |-> exInst,
                          memInst |-> ms.memInst,
                          wbInst  |-> ms.wbInst],
                     PC                |-> PC1,
                     loadStallCount    |-> hz.loadStallCount,
                     stallCyclesCount  |-> hz.stallCyclesCount,
                     iCacheStallCycles |->
                         IF doFetch
                         THEN (IF ~acc.hit THEN missStall(S.iCache)
                               ELSE iStall1)
                         ELSE IF ~skip /\ iStall THEN iStall1 - 1
                         ELSE iStall1,
                     dCacheStallCycles |-> ms.dCacheStallCycles,
                     iCache            |-> acc.cache,
                     dCache            |-> ms.dCache,
                     simulator         |-> ms.simulator],
         status |-> IF ms.wbInst.isHalt THEN "HALT" ELSE st1,
         kind   |-> IF illegal THEN "illegal" ELSE "normal",
         rule   |-> hz.rule,
         dMiss  |-> ms.dMiss,
         fetch  |-> doFetch]

\* illegal instruction in ID, then PC / IF control: redirect on a taken
\* branch, else the sequential PC of the branch or the nextPC of the new ID
pcControl(S, status, ms, hz, exInst, idPrev, newIdInst) ==
    LET iStall      == S.iCacheStallCycles > 0
        idIsBr      == isBranch(idPrev)
        branchTaken == idIsBr /\ ~hz.StallID /\ ~iStall
                       /\ idPrev.nextPC # idPrev.PC + 4
        illegalInID == ~hz.StallID /\ ~iStall /\ ~newIdInst.isLegal
        advance     == ~illegalInID /\ ~hz.StallID /\ ~iStall
    IN  ifStage(S, status, ms, hz, exInst,
                IF illegalInID \/ (advance /\ branchTaken)
                THEN nop("SQUASHED") ELSE newIdInst,
                IF illegalInID THEN HandlerPC
                ELSE IF ~advance THEN S.PC
                ELSE IF idIsBr
                     THEN (IF branchTaken THEN idPrev.nextPC
                           ELSE idPrev.PC + 4)
                     ELSE newIdInst.nextPC,
                illegalInID,
                advance /\ branchTaken)

\* ID: the held instruction under a stall, else simID of the IF latch
idStage(S, status, ms, hz, exInst, idPrev) ==
    pcControl(S, status, ms, hz, exInst, idPrev,
              IF hz.StallID \/ S.iCacheStallCycles > 0 THEN idPrev
              ELSE simID(ms.simulator, S.pipelineInfo.ifInst))

\* EX: a bubble, or simEX of the forwarded ID instruction; then branch
\* handling: a control instruction in ID is forwarded to and resolved again
exStage(S, status, ms, hz, idFwd) ==
    idStage(S, status, ms, hz,
            IF hz.BubbleEx THEN nop("BUBBLE")
            ELSE simEX(ms.simulator, idFwd),
            IF isBranch(idFwd)
            THEN simNextPCResolution(ms.simulator,
                     forwardBoth(idFwd, S.pipelineInfo.exInst,
                                 S.pipelineInfo.memInst))
            ELSE idFwd)

\* the stages after MEM and WB, given their result ms and the hazards hz
afterMem(S, status, ms, hz) ==
    exStage(S, status, ms, hz,
            IF hz.BubbleEx THEN S.pipelineInfo.idInst
            ELSE forwardBoth(S.pipelineInfo.idInst, S.pipelineInfo.exInst,
                             S.pipelineInfo.memInst))

\* the iteration without D-miss stall and without memory exception
normalCycle(S, status) ==
    afterMem(S, status,
             memStage(S, exToMemOf(S.pipelineInfo.exInst,
                                   S.pipelineInfo.wbInst)),
             hazard(S, S.pipelineInfo.idInst, S.pipelineInfo.exInst))

\* one iteration of the loop body, before the dump
cycle(S, status) ==
    IF S.dCacheStallCycles > 0 THEN dStallCycle(S, status)
    ELSE IF memErrorOf(exToMemOf(S.pipelineInfo.exInst, S.pipelineInfo.wbInst))
    THEN memErrorCycle(S, status)
    ELSE normalCycle(S, status)

\* a snapshot numbered after the increment of cycleCount
pipeStateOf_late(count, p) ==
    [cycle     |-> count + 1,
     ifPC      |-> p.ifInst.PC,          ifStatus  |-> p.ifInst.status,
     idInstr   |-> p.idInst.instruction, idStatus  |-> p.idInst.status,
     exInstr   |-> p.exInst.instruction, exStatus  |-> p.exInst.status,
     memInstr  |-> p.memInst.instruction, memStatus |-> p.memInst.status,
     wbInstr   |-> p.wbInst.instruction, wbStatus  |-> p.wbInst.status]

\* the snapshot handed to dumpPipeState: cycle is cycleCount as it was when the
\* iteration began, the rest is read off the latches at dump_state
pipeStateOf(count, p) ==
    [cycle     |-> count,
     ifPC      |-> p.ifInst.PC,          ifStatus  |-> p.ifInst.status,
     idInstr   |-> p.idInst.instruction, idStatus  |-> p.idInst.status,
     exInstr   |-> p.exInst.instruction, exStatus  |-> p.exInst.status,
     memInstr  |-> p.memInst.instruction, memStatus |-> p.memInst.status,
     wbInstr   |-> p.wbInst.instruction, wbStatus  |-> p.wbInst.status]

\* an initialisation that does not charge the miss of the first fetch
initSimulator_noStall(iCacheConfig, dCacheConfig, program) ==
    LET sim == Simulator(program)
        acc == access(Cache(iCacheConfig), 0, "CACHE_READ")
    IN  [pipelineInfo      |-> [ifInst  |-> [simIF(sim, 0) EXCEPT
                                                 !.status = "SPECULATIVE"],
                                idInst  |-> nop("IDLE"),
                                exInst  |-> nop("IDLE"),
                                memInst |-> nop("IDLE"),
                                wbInst  |-> nop("IDLE")],
         PC                |-> 0,
         loadStallCount    |-> 0,
         stallCyclesCount  |-> 0,
         iCacheStallCycles |-> 0,
         dCacheStallCycles |-> 0,
         iCache            |-> acc.cache,
         dCache            |-> Cache(dCacheConfig),
         simulator         |-> sim]

\* initSimulator: caches built, counters zeroed, latches IDLE, then the first
\* fetch at PC 0 through the I-cache
initSimulator(iCacheConfig, dCacheConfig, program) ==
    LET sim == Simulator(program)
        acc == access(Cache(iCacheConfig), 0, "CACHE_READ")
    IN  [pipelineInfo      |-> [ifInst  |-> [simIF(sim, 0) EXCEPT
                                                 !.status = "SPECULATIVE"],
                                idInst  |-> nop("IDLE"),
                                exInst  |-> nop("IDLE"),
                                memInst |-> nop("IDLE"),
                                wbInst  |-> nop("IDLE")],
         PC                |-> 0,
         loadStallCount    |-> 0,
         stallCyclesCount  |-> 0,
         iCacheStallCycles |-> IF ~acc.hit THEN iCacheConfig.missLatency
                               ELSE 0,
         dCacheStallCycles |-> 0,
         iCache            |-> acc.cache,
         dCache            |-> Cache(dCacheConfig),
         simulator         |-> sim]

(***************************************************************************)
(* Pipeline control with the halted flag (cycle.cpp, second runCycles):    *)
(* no cache timing, no forwarding; loadUseStallCount is carried in         *)
(* loadStallCount and branchStallCyclesRemain in stallCyclesCount          *)
(***************************************************************************)
\* hazard detection of that version: one test idUsesEXRd, then load-branch,
\* load-use (not for a store), arith-branch
hazardHalted(S, oldID, oldEX) ==
    IF S.stallCyclesCount > 0
    THEN [stall |-> TRUE,
          stallCyclesCount |-> S.stallCyclesCount - 1,
          loadStallCount |-> S.loadStallCount]
    ELSE LET exWritesRd == oldEX.writesRd /\ oldEX.rd # 0
             exIsLoad   == oldEX.readsMem /\ ~oldEX.writesMem /\ exWritesRd
             exIsArith  == oldEX.doesArithLogic /\ exWritesRd
             idIsBranch == oldID.opcode = "OP_BRANCH"
             idUsesEXRd == /\ ~oldID.isNop /\ exWritesRd
                           /\ \/ oldID.readsRs1 /\ oldID.rs1 = oldEX.rd
                              \/ oldID.readsRs2 /\ oldID.rs2 = oldEX.rd
             loadBranch == idUsesEXRd /\ exIsLoad /\ idIsBranch
             loadUse    == /\ idUsesEXRd /\ ~loadBranch
                           /\ exIsLoad /\ ~oldID.writesMem
             arithBranch == /\ idUsesEXRd /\ ~loadBranch /\ ~loadUse
                            /\ exIsArith /\ idIsBranch
         IN  [stall |-> loadBranch \/ loadUse \/ arithBranch,
              stallCyclesCount |-> IF loadBranch THEN 1
                                   ELSE S.stallCyclesCount,
              loadStallCount |-> IF loadBranch \/ loadUse
                                 THEN S.loadStallCount + 1
                                 ELSE S.loadStallCount]

\* one iteration of the loop of that runCycles
cycleHalted(S, status) ==
    LET p      == S.pipelineInfo
        hz     == hazardHalted(S, p.idInst, p.exInst)
        wb     == simWB(S.simulator, p.memInst)
        dAcc   == IF needDataOf(p.exInst)
                  THEN access(S.dCache, p.exInst.memAddress,
                              IF p.exInst.readsMem THEN "CACHE_READ"
                              ELSE "CACHE_WRITE").cache
                  ELSE S.dCache
        m      == simMEM(wb.sim, p.exInst)
        nextEX == IF hz.stall THEN nop("BUBBLE") ELSE simEX(m.sim, p.idInst)
        nextID == IF hz.stall THEN p.idInst ELSE simID(m.sim, p.ifInst)
        idIsCtrl == isBranch(nextID)
        branchTaken == /\ ~nextID.isNop /\ nextID.isLegal /\ idIsCtrl
                       /\ nextID.nextPC # nextID.PC + 4
        newPC  == IF branchTaken THEN nextID.nextPC ELSE S.PC + 4
        iAcc   == IF hz.stall THEN S.iCache
                  ELSE access(S.iCache, S.PC, "CACHE_READ").cache
        nextIF == IF branchTaken THEN nop("SQUASHED")
                  ELSE IF hz.stall THEN p.ifInst
                  ELSE [simIF(m.sim, S.PC) EXCEPT
                            !.status = IF idIsCtrl THEN "SPECULATIVE"
                                       ELSE "NORMAL"]
    IN  [S      |-> [S EXCEPT !.pipelineInfo = [ifInst  |-> nextIF,
                                                idInst  |-> nextID,
                                                exInst  |-> nextEX,
                                                memInst |-> m.inst,
                                                wbInst  |-> wb.inst],
                              !.PC = newPC,
                              !.loadStallCount = hz.loadStallCount,
                              !.stallCyclesCount = hz.stallCyclesCount,
                              !.iCache = iAcc,
                              !.dCache = dAcc,
                              !.simulator = m.sim],
         status |-> IF wb.inst.isHalt THEN "HALT" ELSE status,
         halted |-> wb.inst.isHalt]

\* initSimulator of that version: no first fetch, nothing in flight
initSimulatorHalted(iCacheConfig, dCacheConfig, program) ==
    [pipelineInfo      |-> [ifInst  |-> nop("IDLE"),
                            idInst  |-> nop("IDLE"),
                            exInst  |-> nop("IDLE"),
                            memInst |-> nop("IDLE"),
                            wbInst  |-> nop("IDLE")],
     PC                |-> 0,
     loadStallCount    |-> 0,
     stallCyclesCount  |-> 0,
     iCacheStallCycles |-> 0,
     dCacheStallCycles |-> 0,
     iCache            |-> Cache(iCacheConfig),
     dCache            |-> Cache(dCacheConfig),
     simulator         |-> Simulator(program)]

(***************************************************************************)
(* Pipeline control that abandons a fetch on a redirect (part_003): no     *)
(* first fetch in initSimulator, the hazards found from opcodes, the fetch *)
(* made in the iteration of the redirect                                   *)
(***************************************************************************)
\* dCacheStall, evaluated in every iteration: a load reads the D-cache, a
\* store writes it, unless the address is a memory exception
dCacheStallOf(S, exPrev) ==
    LET r == IF exPrev.readsMem
             THEN access(S.dCache, exPrev.memAddress, "CACHE_READ")
             ELSE [cache |-> S.dCache, hit |-> TRUE]
        w == IF exPrev.writesMem /\ r.hit
             THEN access(r.cache, exPrev.memAddress, "CACHE_WRITE")
             ELSE r
    IN  IF memErrorOf(exPrev) THEN [cache |-> S.dCache, stall |-> FALSE]
        ELSE [cache |-> w.cache, stall |-> ~w.hit]

\* what an iteration of that runCycles reports: the statics, whether WB holds
\* a halt, the path taken, the fetch made (fetchAt is -1 without a fetch)
\* and the address invalidated in the I-cache (-1 when none)
Outcome(S, kind, fetchAt, fetchHit, invalidated) ==
    [S           |-> S,
     halt        |-> S.pipelineInfo.wbInst.isHalt,
     kind        |-> kind,
     fetchAt     |-> fetchAt,
     fetchHit    |-> fetchHit,
     invalidated |-> invalidated]

\* a redirect that leaves the block of the abandoned fetch in the I-cache
abandonFetch_keep(c, stallCycles, pc) == c

\* a redirect while an I-miss is outstanding invalidates the address of the
\* fetch in flight
abandonFetch(c, stallCycles, pc) ==
    IF stallCycles # 0 THEN invalidate(c, pc) ELSE c

\* the stall cases: ID keeps its instruction (operands forwarded, or the
\* instruction resolved again), EX takes a bubble, an outstanding I-miss counts
\* down
stalled(S, sim, memInst, wbInst, idInst, countsLoad, kind) ==
    Outcome([S EXCEPT !.pipelineInfo =
                          [@ EXCEPT !.idInst  = idInst,
                                    !.exInst  = nop("BUBBLE"),
                                    !.memInst = memInst,
                                    !.wbInst  = wbInst],
                      !.simulator = sim,
                      !.iCacheStallCycles = IF @ # 0 THEN @ - 1 ELSE @,
                      !.loadStallCount = IF countsLoad THEN @ + 1 ELSE @],
            kind, -1, FALSE, -1)

\* the taken branch: ID squashed, the outstanding fetch abandoned, the fetch
\* at nextPC made in the same iteration
redirect(S, sim, memInst, wbInst, exInst, nextPC) ==
    LET acc == access(abandonFetch(S.iCache, S.iCacheStallCycles, S.PC),
                      nextPC, "CACHE_READ")
    IN  Outcome([S EXCEPT !.pipelineInfo =
                              [ifInst  |-> simIF(sim, nextPC),
                               idInst  |-> nop("SQUASHED"),
                               exInst  |-> exInst,
                               memInst |-> memInst,
                               wbInst  |-> wbInst],
                          !.simulator = sim,
                          !.PC = nextPC,
                          !.iCache = acc.cache,
                          !.iCacheStallCycles =
                              IF ~acc.hit THEN missStall(S.iCache) ELSE 0],
                "redirect", nextPC, acc.hit,
                IF S.iCacheStallCycles # 0 THEN S.PC ELSE -1)

\* no redirect: the IF latch is decoded; an illegal instruction goes to the
\* handler, an outstanding I-miss puts a bubble in ID, else the fetch at the
\* nextPC of the decoded instruction
advance(S, sim, memInst, wbInst, exInst, idInst) ==
    LET p   == [S.pipelineInfo EXCEPT !.exInst = exInst, !.memInst = memInst,
                                      !.wbInst = wbInst]
        acc == access(S.iCache, idInst.nextPC, "CACHE_READ")
    IN  IF ~idInst.isLegal
        THEN Outcome([S EXCEPT !.pipelineInfo =
                                   [p EXCEPT !.idInst = nop("SQUASHED"),
                                             !.ifInst = simIF(sim, HandlerPC)],
                               !.simulator = sim,
                               !.PC = HandlerPC],
                     "illegal", -1, FALSE, -1)
        ELSE IF S.iCacheStallCycles > 0
        THEN Outcome([S EXCEPT !.pipelineInfo =
                                   [p EXCEPT !.idInst = nop("BUBBLE")],
                               !.simulator = sim,
                               !.PC = idInst.nextPC,
                               !.iCacheStallCycles = @ - 1],
                     "iStall", -1, FALSE, -1)
        ELSE Outcome([S EXCEPT !.pipelineInfo =
                                   [p EXCEPT !.idInst = idInst,
                                             !.ifInst =
                                                 simIF(sim, idInst.nextPC)],
                               !.simulator = sim,
                               !.PC = idInst.nextPC,
                               !.iCache = acc.cache,
                               !.iCacheStallCycles =
                                   IF ~acc.hit THEN missStall(S.iCache)
                                   ELSE @],
                     "normal", idInst.nextPC, acc.hit, -1)

\* the operand forwarded in the case without stall: neither readsRs nor
\* rs # 0 is looked at
forwardedOperand(rs, opVal, exPrev, memPrev) ==
    IF exPrev.writesRd /\ exPrev.rd = rs /\ exPrev.doesArithLogic
    THEN exPrev.arithResult
    ELSE IF memPrev.writesRd /\ memPrev.rd = rs /\ memPrev.readsMem
    THEN memPrev.memResult
    ELSE IF memPrev.writesRd /\ memPrev.rd = rs /\ memPrev.doesArithLogic
    THEN memPrev.arithResult
    ELSE opVal

\* the case without stall: EX takes the forwarded ID instruction; a control
\* instruction whose nextPC is not PC + 4 redirects
noStall(S, sim, memInst, wbInst, idFwd) ==
    IF ~idFwd.isNop /\ isBranch(idFwd) /\ idFwd.nextPC # idFwd.PC + 4
    THEN redirect(S, sim, memInst, wbInst, simEX(sim, idFwd), idFwd.nextPC)
    ELSE advance(S, sim, memInst, wbInst, simEX(sim, idFwd),
                 simID(sim, S.pipelineInfo.ifInst))

\* hazard detection and the younger stages, given the new MEM and WB latches
afterMemWB(S, sim, memInst, wbInst) ==
    LET id      == S.pipelineInfo.idInst
        ex      == S.pipelineInfo.exInst
        mem     == S.pipelineInfo.memInst
        isBr    == ~id.isNop /\ isBranch(id)
        uses    == id.rs1 = ex.rd \/ id.rs2 = ex.rd
        loadUse == /\ ~id.isNop /\ ~ex.isNop /\ uses
                   /\ ex.opcode = "OP_LOAD" /\ ex.rd # 0
        arithBranch == /\ isBr /\ ex.doesArithLogic /\ ex.writesRd
                       /\ ex.rd # 0 /\ uses
        loadBranch  == isBr /\ mem.opcode = "OP_LOAD" /\ ex.isNop
    IN  IF loadUse
        THEN stalled(S, sim, memInst, wbInst,
                     [id EXCEPT !.op1Val = IF memInst.rd = id.rs1
                                           THEN memInst.memResult ELSE @,
                                !.op2Val = IF memInst.rd = id.rs2
                                           THEN memInst.memResult ELSE @],
                     ~isBr, "loadUse")
        ELSE IF arithBranch
        THEN stalled(S, sim, memInst, wbInst, simNextPCResolution(sim, id),
                     FALSE, "arithBranch")
        ELSE IF loadBranch
        THEN stalled(S, sim, memInst, wbInst, simNextPCResolution(sim, id),
                     TRUE, "loadBranch")
        ELSE noStall(S, sim, memInst, wbInst,
                     [id EXCEPT
                         !.op1Val = forwardedOperand(id.rs1, @, ex, mem),
                         !.op2Val = forwardedOperand(id.rs2, @, ex, mem)])

\* WB of memPrev, then MEM of exPrev
wbThenMem(S, wb) == [wb |-> wb, m |-> simMEM(wb.sim, S.pipelineInfo.exInst)]

\* one iteration of the loop of that runCycles
cycleAbandoning(S) ==
    LET p  == S.pipelineInfo
        d  == dCacheStallOf(S, p.exInst)
        S1 == [S EXCEPT !.dCache = d.cache]
        r  == wbThenMem(S, simWB(S.simulator, p.memInst))
    IN  IF S.dCacheStallCycles # 0
        THEN Outcome([S1 EXCEPT !.pipelineInfo.wbInst = nop("BUBBLE"),
                                !.dCacheStallCycles = @ - 1],
                     "dStall", -1, FALSE, -1)
        ELSE IF memErrorOf(p.exInst)
        THEN Outcome([S1 EXCEPT !.pipelineInfo =
                                    [ifInst  |-> simIF(r.wb.sim, HandlerPC),
                                     idInst  |-> nop("SQUASHED"),
                                     exInst  |-> nop("SQUASHED"),
                                     memInst |-> nop("SQUASHED"),
                                     wbInst  |-> r.wb.inst],
                                !.simulator = r.wb.sim,
                                !.PC = HandlerPC],
                     "memError", -1, FALSE, -1)
        ELSE IF d.stall
        THEN Outcome([S1 EXCEPT !.pipelineInfo =
                                    [@ EXCEPT !.memInst = r.m.inst,
                                              !.wbInst = r.wb.inst],
                                !.simulator = r.m.sim,
                                !.dCacheStallCycles = missStall(S.dCache)],
                     "dMiss", -1, FALSE, -1)
        ELSE afterMemWB(S1, r.m.sim, r.m.inst, r.wb.inst)

\* initSimulator of that version: counters zeroed, latches IDLE, no fetch
initSimulatorAbandoning(iCacheConfig, dCacheConfig, program) ==
    [pipelineInfo      |-> [ifInst  |-> nop("IDLE"), idInst  |-> nop("IDLE"),
                            exInst  |-> nop("IDLE"), memInst |-> nop("IDLE"),
                            wbInst  |-> nop("IDLE")],
     PC                |-> 0,
     loadStallCount    |-> 0,
     stallCyclesCount  |-> 0,
     iCacheStallCycles |-> 0,
     dCacheStallCycles |-> 0,
     iCache            |-> Cache(iCacheConfig),
     dCache            |-> Cache(dCacheConfig),
     simulator         |-> Simulator(program)]

(***************************************************************************)
(* Pipeline control (cycle.cpp, first runCycles): initSimulator leaves the *)
(* stall counters and loadStallCount alone, WB waits on an I-miss, the     *)
(* memory exception returns from runCycles                                 *)
(***************************************************************************)
\* initSimulator of that version, called when the statics are S: simulator and
\* caches built anew, PC zeroed, latches IDLE; stallCyclesCount,
\* loadStallCount, iCacheStallCycles and dCacheStallCycles are not assigned
initSimulatorFirst(S, iCacheConfig, dCacheConfig, program) ==
    [pipelineInfo      |-> [ifInst  |-> nop("IDLE"), idInst  |-> nop("IDLE"),
                            exInst  |-> nop("IDLE"), memInst |-> nop("IDLE"),
                            wbInst  |-> nop("IDLE")],
     PC                |-> 0,
     loadStallCount    |-> S.loadStallCount,
     stallCyclesCount  |-> S.stallCyclesCount,
     iCacheStallCycles |-> S.iCacheStallCycles,
     dCacheStallCycles |-> S.dCacheStallCycles,
     iCache            |-> Cache(iCacheConfig),
     dCache            |-> Cache(dCacheConfig),
     simulator         |-> Simulator(program)]

\* the D-miss stall iteration: IF, ID, EX, MEM held, WB takes memPrev again
dStallCycleFirst(S, status) ==
    LET wb == simWB(S.simulator, S.pipelineInfo.memInst)
    IN  [S      |-> [S EXCEPT !.pipelineInfo.wbInst = wb.inst,
                              !.simulator = wb.sim,
                              !.dCacheStallCycles = @ - 1],
         status |-> IF wb.inst.isHalt THEN "HALT" ELSE status,
         kind   |-> "dStall",
         rule   |-> "none",
         dMiss  |-> FALSE,
         fetch  |-> FALSE]

\* MEM and WB without exception: the D-cache access of a memory instruction,
\* simMEM(exPrev), and simWB(memPrev) unless an I-miss stall is in progress
memStageFirst(S) ==
    LET exPrev == S.pipelineInfo.exInst
        acc == IF needDataOf(exPrev)
               THEN access(S.dCache, exPrev.memAddress,
                           IF exPrev.readsMem THEN "CACHE_READ"
                           ELSE "CACHE_WRITE")
               ELSE [cache |-> S.dCache, hit |-> TRUE]
        m   == simMEM(S.simulator, exPrev)
        wb  == IF S.iCacheStallCycles > 0
               THEN [inst |-> nop("BUBBLE"), sim |-> m.sim]
               ELSE simWB(m.sim, S.pipelineInfo.memInst)
    IN  [memInst   |-> m.inst,
         wbInst    |-> wb.inst,
         simulator |-> wb.sim,
         dCache    |-> acc.cache,
         dMiss     |-> ~acc.hit,
         dCacheStallCycles |-> IF ~acc.hit THEN S.dCache.config.missLatency
                               ELSE S.dCacheStallCycles]

\* the hazard tests of that version compare register numbers only: load-use
\* first, then arith-branch, then load-branch
hazardRuleFirst(idPrev, exPrev) ==
    LET load    == exPrev.readsMem /\ exPrev.writesRd /\ exPrev.rd # 0
        arith   == exPrev.doesArithLogic /\ exPrev.writesRd /\ exPrev.rd # 0
        sameReg == idPrev.rs1 = exPrev.rd \/ idPrev.rs2 = exPrev.rd
    IN  IF /\ load /\ ~isBranch(idPrev)
           /\ \/ idPrev.rs1 = exPrev.rd
              \/ idPrev.rs2 = exPrev.rd
                 /\ ~(idPrev.writesMem /\ ~idPrev.readsMem)
        THEN "loadUse"
        ELSE IF arith /\ isBranch(idPrev) /\ sameReg THEN "arithBranch"
        ELSE IF load /\ isBranch(idPrev) /\ sameReg THEN "loadBranch"
        ELSE "none"

\* IF stage and halt check: the latch is held under StallID and under an
\* I-miss stall, left as it is on a taken branch, and fetched otherwise
ifStageFirst(S, status, ms, hz, exInst, idInst, PC1, squashIF) ==
    LET iStall  == S.iCacheStallCycles > 0
        doIF    == ~hz.StallID /\ ~squashIF /\ ~iStall
        bad     == doIF /\ PC1 >= MEMORY_SIZE
        doFetch == doIF /\ ~bad
        acc     == IF doFetch THEN access(S.iCache, PC1, "CACHE_READ")
                   ELSE [cache |-> S.iCache, hit |-> TRUE]
    IN  [S      |-> [pipelineInfo      |->
                         [ifInst  |-> IF bad
                                      THEN simIF(ms.simulator, HandlerPC)
                                      ELSE IF doFetch
                                      THEN [simIF(ms.simulator, PC1) EXCEPT
                                                !.status = "SPECULATIVE"]
                                      ELSE S.pipelineInfo.ifInst,
                          idInst  |-> idInst,
                          exInst  |-> exInst,
                          memInst |-> ms.memInst,
                          wbInst  |-> ms.wbInst],
                     PC                |-> PC1,
                     loadStallCount    |-> hz.loadStallCount,
                     stallCyclesCount  |-> hz.stallCyclesCount,
                     iCacheStallCycles |->
                         IF doFetch /\ ~acc.hit
                         THEN S.iCache.config.missLatency
                         ELSE IF ~hz.StallID /\ ~squashIF /\ iStall
                         THEN S.iCacheStallCycles - 1
                         ELSE S.iCacheStallCycles,
                     dCacheStallCycles |-> ms.dCacheStallCycles,
                     iCache            |-> acc.cache,
                     dCache            |-> ms.dCache,
                     simulator         |-> ms.simulator],
         status |-> IF ms.wbInst.isHalt THEN "HALT"
                    ELSE IF bad THEN "ERROR" ELSE status,
         kind   |-> "normal",
         rule   |-> hz.rule,
         dMiss  |-> ms.dMiss,
         fetch  |-> doFetch]

\* ID, PC control and the forwarding of store data: exInst is the new EX
\* latch, idPrev the instruction of ID after forwarding and resolution
idStageFirst(S, status, ms, hz, exInst, idPrev) ==
    LET iStall      == S.iCacheStallCycles > 0
        exPrev      == S.pipelineInfo.exInst
        branchTaken == /\ isBranch(idPrev) /\ ~hz.StallID
                       /\ idPrev.nextPC # idPrev.PC + 4
        newIdInst   == IF branchTaken THEN nop("SQUASHED")
                       ELSE IF hz.StallID \/ iStall THEN idPrev
                       ELSE simID(ms.simulator, S.pipelineInfo.ifInst)
        advancing   == ~hz.StallID /\ ~iStall
        storeData   == /\ exPrev.writesMem /\ ~exPrev.readsMem
                       /\ exPrev.readsRs2 /\ exPrev.rs2 # 0
                       /\ ms.wbInst.writesRd /\ ms.wbInst.rd = exPrev.rs2
                       /\ ms.wbInst.readsMem
    IN  ifStageFirst(S, status, ms, hz,
                     IF storeData
                     THEN [exInst EXCEPT !.op2Val = ms.wbInst.memResult]
                     ELSE exInst,
                     newIdInst,
                     IF ~advancing THEN S.PC
                     ELSE IF isBranch(idPrev)
                          THEN (IF branchTaken THEN idPrev.nextPC
                                ELSE idPrev.PC + 4)
                          ELSE newIdInst.nextPC,
                     advancing /\ branchTaken)

\* EX: a bubble, or simEX of the forwarded ID instruction; a control
\* instruction in ID is then resolved with its forwarded operands
exStageFirst(S, status, ms, hz, idFwd) ==
    idStageFirst(S, status, ms, hz,
                 IF hz.BubbleEx THEN nop("BUBBLE")
                 ELSE simEX(ms.simulator, idFwd),
                 IF isBranch(idFwd)
                 THEN simNextPCResolution(ms.simulator,
                          forwardBoth(idFwd, S.pipelineInfo.exInst,
                                      S.pipelineInfo.memInst))
                 ELSE idFwd)

\* the iteration without D-miss stall and without memory exception
normalCycleFirst(S, status) ==
    LET hz == hazardEffect(S, IF S.stallCyclesCount > 0 THEN "second"
                              ELSE hazardRuleFirst(S.pipelineInfo.idInst,
                                                   S.pipelineInfo.exInst))
    IN  exStageFirst(S, status, memStageFirst(S), hz,
                     IF hz.BubbleEx THEN S.pipelineInfo.idInst
                     ELSE forwardBoth(S.pipelineInfo.idInst,
                                      S.pipelineInfo.exInst,
                                      S.pipelineInfo.memInst))

\* one iteration of the loop body of that version, before the dump
cycleFirst(S, status) ==
    IF S.dCacheStallCycles > 0 THEN dStallCycleFirst(S, status)
    ELSE IF memErrorOf(S.pipelineInfo.exInst) THEN memErrorCycle(S, status)
    ELSE normalCycleFirst(S, status)

\* what finalizeSimulator reports of the statics S after count iterations
SimulationStats(S, count) ==
    [dynamicInstructions |-> S.simulator.din,
     totalCycles         |-> count,
     icHits              |-> S.iCache.hits,
     icMisses            |-> S.iCache.misses,
     dcHits              |-> S.dCache.hits,
     dcMisses            |-> S.dCache.misses,
     loadStalls          |-> S.loadStallCount]

(***************************************************************************)
(* State                                                                   *)
(***************************************************************************)
VARIABLES
    cache,      \* the Cache object of the stand-alone cache
    last,       \* the last call on it: what it was, its address, its result,
                \* the cache before it, and whether it was an access that
                \* directly followed invalidate of the same address
    simulator, iCache, dCache,          \* the file-scope statics of cycle.cpp
    cycleCount, PC,
    loadStallCount, stallCyclesCount,
    iCacheStallCycles, dCacheStallCycles,
    pipelineInfo,
    halted,
    output,     \* the snapshots written by dumpPipeState: how many, the last
    call,       \* the frame of runCycles: cycles, count, status, whether it
                \* has returned, and the snapshots it has written
    obs,        \* the last iteration: its kind, the statics before it, and
                \* the D-miss stall it belongs to
    applied     \* a call of forwarding or of the hazard detection on given
                \* latches: the arguments, and the result once it is made

cacheVars == <<cache, last>>

cycleVars == <<simulator, iCache, dCache, cycleCount, PC, loadStallCount,
               stallCyclesCount, iCacheStallCycles, dCacheStallCycles,
               pipelineInfo, halted, output, call, obs>>

stageVars == <<applied>>

vars == <<cacheVars, cycleVars, stageVars>>

\* the statics as one record
Globals ==
    [pipelineInfo      |-> pipelineInfo,
     PC                |-> PC,
     loadStallCount    |-> loadStallCount,
     stallCyclesCount  |-> stallCyclesCount,
     iCacheStallCycles |-> iCacheStallCycles,
     dCacheStallCycles |-> dCacheStallCycles,
     iCache            |-> iCache,
     dCache            |-> dCache,
     simulator         |-> simulator]

\* the statics as the static initialisers leave them
Statics ==
    [pipelineInfo      |-> [ifInst  |-> nop("IDLE"), idInst  |-> nop("IDLE"),
                            exInst  |-> nop("IDLE"), memInst |-> nop("IDLE"),
                            wbInst  |-> nop("IDLE")],
     PC                |-> 0,
     loadStallCount    |-> 0,
     stallCyclesCount  |-> 0,
     iCacheStallCycles |-> 0,
     dCacheStallCycles |-> 0,
     iCache            |-> "nullptr",
     dCache            |-> "nullptr",
     simulator         |-> "nullptr"]

NoCall == [state |-> "idle", cycles |-> 0, count |-> 0, status |-> "SUCCESS",
           dumps |-> 0]

NoOutput == [count |-> 0, pipeState |-> pipeStateOf(0, Statics.pipelineInfo)]

NoObs == [kind |-> "none", status |-> "SUCCESS",
          rule |-> "none", dMiss |-> FALSE, fetch |-> FALSE,
          open |-> FALSE, latency |-> 0, run |-> 0,
          resumed |-> FALSE, resumedRun |-> 0, resumedLatency |-> 0,
          lb |-> 0, prevLb |-> 0, prevRule |-> "none", lbCount |-> 0,
          before |-> Statics]

\* the statics hold G before any call of runCycles
StartsAs(G) ==
    /\ pipelineInfo = G.pipelineInfo
    /\ PC = G.PC
    /\ loadStallCount = G.loadStallCount
    /\ stallCyclesCount = G.stallCyclesCount
    /\ iCacheStallCycles = G.iCacheStallCycles
    /\ dCacheStallCycles = G.dCacheStallCycles
    /\ iCache = G.iCache
    /\ dCache = G.dCache
    /\ simulator = G.simulator
    /\ cycleCount = 0
    /\ halted = FALSE
    /\ output = NoOutput
    /\ call = NoCall
    /\ obs = NoObs

\* the statics become G
Becomes(G) ==
    /\ pipelineInfo' = G.pipelineInfo
    /\ PC' = G.PC
    /\ loadStallCount' = G.loadStallCount
    /\ stallCyclesCount' = G.stallCyclesCount
    /\ iCacheStallCycles' = G.iCacheStallCycles
    /\ dCacheStallCycles' = G.dCacheStallCycles
    /\ iCache' = G.iCache
    /\ dCache' = G.dCache
    /\ simulator' = G.simulator

(***************************************************************************)
(* A stand-alone cache driven by arbitrary access / invalidate calls       *)
(***************************************************************************)
\* no simulator is built beside the stand-alone cache
NoSimulator ==
    /\ simulator = "nullptr" /\ iCache = "nullptr" /\ dCache = "nullptr"
    /\ cycleCount = 0 /\ PC = 0
    /\ loadStallCount = 0 /\ stallCyclesCount = 0
    /\ iCacheStallCycles = 0 /\ dCacheStallCycles = 0
    /\ pipelineInfo = "nullptr"
    /\ halted = FALSE
    /\ output = "nullptr"
    /\ call = "nullptr"
    /\ obs = "nullptr"

Addresses == 0 .. MaxAddress

\* configurations: 2 sets x 2 ways; 1 set x 2 ways of 2-byte blocks;
\* 2 sets x 1 way; zero ways; zero sets (fewer blocks than ways)
CacheConfigs ==
    { CacheConfig(4, 1, 2, 2),
      CacheConfig(4, 2, 2, 1),
      CacheConfig(2, 1, 1, 1),
      CacheConfig(4, 1, 0, 1),
      CacheConfig(1, 1, 2, 1) }

InitCache ==
    \E config \in CacheConfigs :
        /\ cache = Cache(config)
        /\ last = [op |-> "new", address |-> 0, hit |-> FALSE,
                   afterInvalidate |-> FALSE, before |-> Cache(config)]
        /\ NoSimulator
        /\ applied = "nullptr"

Access(address, readWrite) ==
    /\ cache.hits + cache.misses < MaxAccesses
    /\ LET r == access(cache, address, readWrite)
       IN  /\ cache' = r.cache
           /\ last' = [op |-> "access", address |-> address, hit |-> r.hit,
                       afterInvalidate |-> (last.op = "invalidate"
                                            /\ last.address = address),
                       before |-> cache]
    /\ UNCHANGED <<cycleVars, stageVars>>

Invalidate(address) ==
    /\ cache' = invalidate(cache, address)
    /\ last' = [op |-> "invalidate", address |-> address, hit |-> FALSE,
                afterInvalidate |-> FALSE, before |-> cache]
    /\ UNCHANGED <<cycleVars, stageVars>>

NextCache ==
    \/ \E address \in Addresses, readWrite \in CacheOperations :
           Access(address, readWrite)
    \/ \E address \in Addresses : Invalidate(address)

Spec == InitCache /\ [][NextCache]_vars

(***************************************************************************)
(* A stand-alone cache of one set with three ways, driven by the same      *)
(* calls                                                                   *)
(***************************************************************************)
InitWide ==
    /\ cache = Cache(CacheConfig(3, 1, 3, 1))
    /\ last = [op |-> "new", address |-> 0, hit |-> FALSE,
               afterInvalidate |-> FALSE,
               before |-> Cache(CacheConfig(3, 1, 3, 1))]
    /\ NoSimulator
    /\ applied = "nullptr"

SpecWide == InitWide /\ [][NextCache]_vars

(***************************************************************************)
(* The simulator driven by arbitrary runCycles calls (part_001)            *)
(***************************************************************************)
\* the instruction words a program is made of; the last one decodes to nothing
Alphabet ==
    {"addi x1,x0,1", "lui x1,0x100", "add x2,x1,x1", "lw x1,64(x0)",
     "lw x2,64(x1)", "lw x1,64(x1)", "sw x1,64(x0)", "sw x2,64(x1)",
     "beq x1,x0,8", "jalr x0,0(x1)", "feedfeed", "ffffffff"}

\* memory images: every two words, and some three-word programs (a taken
\* branch over an instruction, dependent loads and a store, a load beyond the
\* memory bound, a jump back to 0, a halt followed by a load beyond the
\* memory bound), each followed by halt words
Programs ==
    (Alphabet \X Alphabet) \cup
    { <<"beq x1,x0,8", "addi x1,x0,1", "add x2,x1,x1">>,
      <<"lw x1,64(x0)", "lw x2,64(x1)", "sw x2,64(x1)">>,
      <<"lui x1,0x100", "addi x1,x0,1", "lw x2,64(x1)">>,
      <<"addi x1,x0,1", "jalr x0,0(x1)", "ffffffff">>,
      <<"beq x1,x0,8", "addi x1,x0,1", "ffffffff">>,
      <<"lui x1,0x100", "feedfeed", "lw x2,64(x1)">> }

\* I-cache: two sets of one 8-byte block, with miss latency 2, 1 and 0
ICacheConfigs ==
    { CacheConfig(16, 8, 1, 2), CacheConfig(16, 8, 1, 1),
      CacheConfig(16, 8, 1, 0) }

\* D-cache: one set of two 4-byte blocks, with and without miss latency
DCacheConfigs == { CacheConfig(8, 4, 2, 2), CacheConfig(8, 4, 2, 0) }

\* the cycles argument of runCycles; 0 runs until HALT
CallSizes == 0 .. MaxCall

InitCycle ==
    /\ cache = "nullptr"
    /\ last = "nullptr"
    /\ applied = "nullptr"
    /\ \E iCacheConfig \in ICacheConfigs, dCacheConfig \in DCacheConfigs,
          program \in Programs :
           StartsAs(initSimulator(iCacheConfig, dCacheConfig, program))

\* runCycles(cycles) is entered: count = 0, status = SUCCESS
RunCycles(cycles) ==
    /\ call.state # "running"
    /\ cycleCount < MaxCycles
    /\ call' = [state |-> "running", cycles |-> cycles, count |-> 0,
                status |-> "SUCCESS", dumps |-> 0]
    /\ UNCHANGED <<cacheVars, stageVars, simulator, iCache, dCache, cycleCount, PC,
                   loadStallCount, stallCyclesCount, iCacheStallCycles,
                   dCacheStallCycles, pipelineInfo, halted, output, obs>>

\* what the iteration adds to the record: its path, the status it leaves in
\* the local variable status, its hazard rule, the D-miss
\* stall it belongs to (freezes since the miss), and the place in a
\* load-branch stall (lb: 1 after its first cycle, 2 after its second;
\* prevLb, prevRule: the place and the rule of the iteration before, freezes
\* not counted; lbCount: loadStallCount before the stall began)
observe(o, G, r) ==
    IF r.kind = "dStall"
    THEN [o EXCEPT !.kind = r.kind, !.status = r.status,
                   !.rule = r.rule, !.dMiss = FALSE,
                   !.fetch = FALSE, !.run = @ + 1, !.resumed = FALSE,
                   !.before = G]
    ELSE [kind    |-> r.kind,
          status  |-> r.status,
          rule    |-> r.rule,
          dMiss   |-> r.dMiss,
          fetch   |-> r.fetch,
          open    |-> r.dMiss,
          latency |-> IF r.dMiss THEN G.dCache.config.missLatency ELSE 0,
          run     |-> 0,
          resumed |-> o.open,
          resumedRun     |-> o.run,
          resumedLatency |-> o.latency,
          lb      |-> IF r.rule = "loadBranch" THEN 1
                      ELSE IF r.rule = "second" THEN 2 ELSE 0,
          prevLb  |-> o.lb,
          prevRule |-> o.rule,
          lbCount |-> IF r.rule = "loadBranch" THEN G.loadStallCount
                      ELSE o.lbCount,
          before  |-> G]

\* one iteration of the loop of runCycles: the stage updates, the snapshot at
\* dump_state, and the return when HALT was seen or count reached cycles
Iterate ==
    /\ call.state = "running"
    /\ cycleCount < MaxCycles
    /\ LET r    == cycle(Globals, call.status)
           done == \/ r.status = "HALT"
                   \/ call.cycles # 0 /\ call.count + 1 >= call.cycles
       IN  /\ Becomes(r.S)
           /\ cycleCount' = cycleCount + 1
           /\ output' = [count |-> output.count + 1,
                         pipeState |-> pipeStateOf(cycleCount,
                                                   r.S.pipelineInfo)]
           /\ call' = [call EXCEPT
                          !.state = IF done THEN "returned" ELSE "running",
                          !.count = @ + 1,
                          !.status = r.status,
                          !.dumps = @ + 1]
           /\ obs' = observe(obs, Globals, r)
    /\ UNCHANGED <<cacheVars, stageVars, halted>>

NextCycle ==
    \/ \E cycles \in CallSizes : RunCycles(cycles)
    \/ Iterate

SpecCycle == InitCycle /\ [][NextCycle]_vars

(***************************************************************************)
(* The simulator with the halted flag driven by arbitrary runCycles calls  *)
(* (cycle.cpp, second version)                                             *)
(***************************************************************************)
InitHalted ==
    /\ cache = "nullptr"
    /\ last = "nullptr"
    /\ applied = "nullptr"
    /\ \E iCacheConfig \in ICacheConfigs, dCacheConfig \in DCacheConfigs,
          program \in Programs :
           StartsAs(initSimulatorHalted(iCacheConfig, dCacheConfig, program))

\* runCycles(cycles) is entered; when halted it dumps the latches once more,
\* numbered cycleCount - 1, and returns HALT
RunCyclesHalted(cycles) ==
    /\ call.state # "running"
    /\ IF halted
       THEN /\ output.count < MaxCycles
            /\ output' = [count |-> output.count + 1,
                          pipeState |-> pipeStateOf(
                              IF cycleCount = 0 THEN 0 ELSE cycleCount - 1,
                              pipelineInfo)]
            /\ call' = [state |-> "returned", cycles |-> cycles, count |-> 0,
                        status |-> "HALT", dumps |-> 1]
       ELSE /\ cycleCount < MaxCycles
            /\ call' = [state |-> "running", cycles |-> cycles, count |-> 0,
                        status |-> "SUCCESS", dumps |-> 0]
            /\ UNCHANGED output
    /\ UNCHANGED <<cacheVars, stageVars, simulator, iCache, dCache, cycleCount, PC,
                   loadStallCount, stallCyclesCount, iCacheStallCycles,
                   dCacheStallCycles, pipelineInfo, halted, obs>>

\* one iteration of the loop; the one that ends the loop also fills the
\* snapshot from the latches, dumps it and returns
IterateHalted ==
    /\ call.state = "running"
    /\ cycleCount < MaxCycles
    /\ LET r    == cycleHalted(Globals, call.status)
           done == \/ r.halted
                   \/ call.cycles # 0 /\ call.count + 1 >= call.cycles
       IN  /\ Becomes(r.S)
           /\ halted' = r.halted
           /\ cycleCount' = cycleCount + 1
           /\ output' = IF done
                        THEN [count |-> output.count + 1,
                              pipeState |-> pipeStateOf(cycleCount,
                                                        r.S.pipelineInfo)]
                        ELSE output
           /\ call' = [call EXCEPT
                          !.state = IF done THEN "returned" ELSE "running",
                          !.count = @ + 1,
                          !.status = r.status,
                          !.dumps = IF done THEN 1 ELSE 0]
    /\ UNCHANGED <<cacheVars, stageVars, obs>>

NextHalted ==
    \/ \E cycles \in CallSizes : RunCyclesHalted(cycles)
    \/ IterateHalted

SpecHalted == InitHalted /\ [][NextHalted]_vars

(***************************************************************************)
(* forwarding and the hazard detection applied to arbitrary latches        *)
(***************************************************************************)
\* the instruction in ID: a control instruction, a store or a register
\* operation, reading any of the registers
IdLatches ==
    { [Instruction EXCEPT !.opcode = o, !.isLegal = TRUE,
                          !.writesMem = (o = "OP_STORE"),
                          !.readsRs1 = r1, !.rs1 = a,
                          !.readsRs2 = r2, !.rs2 = b] :
        o \in {"OP_BRANCH", "OP_JAL", "OP_JALR", "OP_STORE", "OP_INTREG"},
        r1 \in BOOLEAN, a \in Registers, r2 \in BOOLEAN, b \in Registers }

\* the instruction in EX or MEM: any combination of writesRd, rd, readsMem
\* and doesArithLogic, with the given results
ResultLatches(arithResult, memResult) ==
    { [Instruction EXCEPT !.isLegal = TRUE,
                          !.writesRd = w, !.rd = d,
                          !.readsMem = rm, !.doesArithLogic = al,
                          !.arithResult = arithResult,
                          !.memResult = memResult] :
        w \in BOOLEAN, d \in Registers, rm \in BOOLEAN, al \in BOOLEAN }

ExLatches == ResultLatches(11, 14)

MemLatches == ResultLatches(13, 12)

\* no call made yet, on no arguments; the operand as decode read it is 10
NoApplied ==
    [fn |-> "none", done |-> FALSE,
     rs |-> 0, readsRs |-> FALSE, opVal |-> 10,
     idPrev |-> Instruction, exPrev |-> Instruction, memPrev |-> Instruction,
     stallCyclesCount |-> 0, loadStallCount |-> 0,
     result |-> 10,
     hz |-> [rule |-> "none", StallID |-> FALSE, BubbleEx |-> FALSE,
             stallCyclesCount |-> 0, loadStallCount |-> 0]]

\* the arguments of a call of forwarding
ForwardingArguments ==
    { [NoApplied EXCEPT !.fn = "forwarding", !.rs = rs, !.readsRs = readsRs,
                        !.exPrev = exPrev, !.memPrev = memPrev] :
        rs \in Registers, readsRs \in BOOLEAN,
        exPrev \in ExLatches, memPrev \in MemLatches }

\* the latches and counters the hazard detection reads
HazardArguments ==
    { [NoApplied EXCEPT !.fn = "hazard", !.idPrev = idPrev,
                        !.exPrev = exPrev, !.stallCyclesCount = n] :
        idPrev \in IdLatches, exPrev \in ExLatches, n \in {0, 1} }

InitStage ==
    /\ cache = "nullptr"
    /\ last = "nullptr"
    /\ NoSimulator
    /\ applied \in ForwardingArguments \cup HazardArguments

\* forwarding(rs, readsRs, opVal, exPrev, memPrev) is called
Forward ==
    /\ applied.fn = "forwarding" /\ ~applied.done
    /\ applied' = [applied EXCEPT
                      !.done = TRUE,
                      !.result = forwarding(applied.rs, applied.readsRs,
                                            applied.opVal, applied.exPrev,
                                            applied.memPrev)]
    /\ UNCHANGED <<cacheVars, cycleVars>>

\* the hazard detection of an iteration runs on idPrev and exPrev
Hazard ==
    /\ applied.fn = "hazard" /\ ~applied.done
    /\ applied' = [applied EXCEPT
                      !.done = TRUE,
                      !.hz = hazard([stallCyclesCount |->
                                        applied.stallCyclesCount,
                                    loadStallCount |-> applied.loadStallCount],
                                   applied.idPrev, applied.exPrev)]
    /\ UNCHANGED <<cacheVars, cycleVars>>

NextStage ==
    \/ Forward
    \/ Hazard

SpecStage == InitStage /\ [][NextStage]_vars

(***************************************************************************)
(* The controller that abandons a fetch on a redirect, driven by calls of  *)
(* runCycles (part_003)                                                    *)
(***************************************************************************)
\* nothing observed yet: no iteration, no fetch abandoned
NoFetchObs ==
    [kind |-> "none", fetchAt |-> -1, fetchHit |-> FALSE, invalidated |-> -1,
     abandoned |-> -1, refetched |-> FALSE, before |-> Statics]

\* the memory images that hold a control instruction
BranchPrograms ==
    { program \in Programs :
        \E i \in DOMAIN program :
            program[i] \in {"beq x1,x0,8", "jalr x0,0(x1)"} }

InitAbandoning ==
    /\ cache = "nullptr"
    /\ last = "nullptr"
    /\ applied = "nullptr"
    /\ \E iCacheConfig \in ICacheConfigs, dCacheConfig \in DCacheConfigs,
          program \in BranchPrograms :
           LET G == initSimulatorAbandoning(iCacheConfig, dCacheConfig,
                                            program)
           IN  /\ pipelineInfo = G.pipelineInfo
               /\ PC = G.PC
               /\ loadStallCount = G.loadStallCount
               /\ stallCyclesCount = G.stallCyclesCount
               /\ iCacheStallCycles = G.iCacheStallCycles
               /\ dCacheStallCycles = G.dCacheStallCycles
               /\ iCache = G.iCache
               /\ dCache = G.dCache
               /\ simulator = G.simulator
    /\ cycleCount = 0
    /\ halted = FALSE
    /\ output = NoOutput
    /\ call = NoCall
    /\ obs = NoFetchObs

\* runCycles(cycles) is entered: count = 0, status = SUCCESS
RunCyclesAbandoning(cycles) ==
    /\ call.state # "running"
    /\ cycleCount < MaxCycles
    /\ call' = [state |-> "running", cycles |-> cycles, count |-> 0,
                status |-> "SUCCESS", dumps |-> 0]
    /\ UNCHANGED <<cacheVars, stageVars, simulator, iCache, dCache,
                   cycleCount, PC, loadStallCount, stallCyclesCount,
                   iCacheStallCycles, dCacheStallCycles, pipelineInfo,
                   halted, output, obs>>

\* what the iteration adds to the record: its path, its fetch, the address
\* it invalidated; abandoned is the address of the last abandoned fetch that
\* has not been fetched again (-1 when none), refetched says that this
\* iteration fetched it
observeFetch(o, G, r) ==
    LET pending == IF r.invalidated # -1 THEN r.invalidated ELSE o.abandoned
        again   == r.fetchAt # -1 /\ r.fetchAt = pending
    IN  [kind        |-> r.kind,
         fetchAt     |-> r.fetchAt,
         fetchHit    |-> r.fetchHit,
         invalidated |-> r.invalidated,
         abandoned   |-> IF again THEN -1 ELSE pending,
         refetched   |-> again,
         before      |-> G]

\* one iteration of the loop; the one that ends the loop (halt in WB, or
\* count reaching cycles) also dumps the latches and returns
IterateAbandoning ==
    /\ call.state = "running"
    /\ cycleCount < MaxCycles
    /\ LET r    == cycleAbandoning(Globals)
           done == \/ r.halt
                   \/ call.cycles # 0 /\ call.count + 1 >= call.cycles
       IN  /\ Becomes(r.S)
           /\ cycleCount' = cycleCount + 1
           /\ output' = IF done
                        THEN [count |-> output.count + 1,
                              pipeState |-> pipeStateOf(cycleCount,
                                                        r.S.pipelineInfo)]
                        ELSE output
           /\ call' = [call EXCEPT
                          !.state = IF done THEN "returned" ELSE "running",
                          !.count = @ + 1,
                          !.status = IF r.halt THEN "HALT" ELSE @,
                          !.dumps = IF done THEN 1 ELSE 0]
           /\ obs' = observeFetch(obs, Globals, r)
    /\ UNCHANGED <<cacheVars, stageVars, halted>>

NextAbandoning ==
    \/ \E cycles \in CallSizes : RunCyclesAbandoning(cycles)
    \/ IterateAbandoning

SpecAbandoning == InitAbandoning /\ [][NextAbandoning]_vars

(***************************************************************************)
(* A simulation started by initSimulator after another one has run in the  *)
(* same process (cycle.cpp, first runCycles), beside the same simulation   *)
(* started from freshly loaded statics                                     *)
(***************************************************************************)
\* nothing observed yet: initSimulator has been called once
NoRestartObs ==
    [kind |-> "none", restarted |-> FALSE, fresh |-> Statics,
     freshStatus |-> "SUCCESS", freshState |-> NoOutput.pipeState]

\* the memory images that begin with a load from address 64
LoadPrograms == { program \in Programs : program[1] = "lw x1,64(x0)" }

InitRestart ==
    /\ cache = "nullptr"
    /\ last = "nullptr"
    /\ applied = "nullptr"
    /\ \E iCacheConfig \in ICacheConfigs, dCacheConfig \in DCacheConfigs,
          program \in LoadPrograms :
           LET G == initSimulatorFirst(Statics, iCacheConfig, dCacheConfig,
                                       program)
           IN  /\ pipelineInfo = G.pipelineInfo
               /\ PC = G.PC
               /\ loadStallCount = G.loadStallCount
               /\ stallCyclesCount = G.stallCyclesCount
               /\ iCacheStallCycles = G.iCacheStallCycles
               /\ dCacheStallCycles = G.dCacheStallCycles
               /\ iCache = G.iCache
               /\ dCache = G.dCache
               /\ simulator = G.simulator
    /\ cycleCount = 0
    /\ halted = FALSE
    /\ output = NoOutput
    /\ call = NoCall
    /\ obs = NoRestartObs

\* runCycles(cycles) is entered: count = 0, status = SUCCESS
RunCyclesFirst(cycles) ==
    /\ call.state # "running"
    /\ cycleCount < MaxCycles
    /\ call' = [state |-> "running", cycles |-> cycles, count |-> 0,
                status |-> "SUCCESS", dumps |-> 0]
    /\ obs' = [obs EXCEPT !.freshStatus = "SUCCESS"]
    /\ UNCHANGED <<cacheVars, stageVars, simulator, iCache, dCache,
                   cycleCount, PC, loadStallCount, stallCyclesCount,
                   iCacheStallCycles, dCacheStallCycles, pipelineInfo,
                   halted, output>>

\* one iteration of the loop with its snapshot; the loop is left on HALT, on
\* a memory exception and when count reaches cycles; after a restart the
\* fresh simulation takes the same iteration
IterateFirst ==
    /\ call.state = "running"
    /\ cycleCount < MaxCycles
    /\ LET r    == cycleFirst(Globals, call.status)
           f    == cycleFirst(obs.fresh, obs.freshStatus)
           done == \/ r.status = "HALT"
                   \/ r.kind = "memError"
                   \/ call.cycles # 0 /\ call.count + 1 >= call.cycles
       IN  /\ Becomes(r.S)
           /\ cycleCount' = cycleCount + 1
           /\ output' = [count |-> output.count + 1,
                         pipeState |-> pipeStateOf(cycleCount,
                                                   r.S.pipelineInfo)]
           /\ call' = [call EXCEPT
                          !.state = IF done THEN "returned" ELSE "running",
                          !.count = @ + 1,
                          !.status = r.status,
                          !.dumps = @ + 1]
           /\ obs' = IF obs.restarted
                     THEN [kind        |-> r.kind,
                           restarted   |-> TRUE,
                           fresh       |-> f.S,
                           freshStatus |-> f.status,
                           freshState  |-> pipeStateOf(cycleCount,
                                                       f.S.pipelineInfo)]
                     ELSE [obs EXCEPT !.kind = r.kind]
    /\ UNCHANGED <<cacheVars, stageVars, halted>>

\* between two calls of runCycles the simulation is given up and
\* initSimulator is called again, for the same memory image and cache
\* configurations
Restart ==
    /\ call.state = "returned"
    /\ ~obs.restarted
    /\ Becomes(initSimulatorFirst(Globals, iCache.config, dCache.config,
                                  simulator.program))
    /\ cycleCount' = 0
    /\ output' = NoOutput
    /\ call' = NoCall
    /\ obs' = [kind        |-> "none",
               restarted   |-> TRUE,
               fresh       |-> initSimulatorFirst(Statics, iCache.config,
                                                  dCache.config,
                                                  simulator.program),
               freshStatus |-> "SUCCESS",
               freshState  |-> NoOutput.pipeState]
    /\ UNCHANGED <<cacheVars, stageVars, halted>>

NextRestart ==
    \/ \E cycles \in CallSizes : RunCyclesFirst(cycles)
    \/ IterateFirst
    \/ Restart

SpecRestart == InitRestart /\ [][NextRestart]_vars

(***************************************************************************)
(* Properties of the cache                                                 *)
(***************************************************************************)
\* the ways of a cache, and whether the set an address maps to holds a valid
\* way with the address's tag
WaysOf(c) == 0 .. (c.config.ways - 1)

Present(c, address) ==
    /\ ~misconfigured(c)
    /\ \E w \in WaysOf(c) :
           /\ c.validBits[index(c, address)][w]
           /\ c.cacheArray[index(c, address)][w] = tag(c, address)

\* every way other than (set, way) has the tag, valid bit and stamp it had
SameExcept(c, b, set, way) ==
    \A s \in DOMAIN b.cacheArray : \A w \in WaysOf(b) :
        (s # set \/ w # way) =>
            /\ c.cacheArray[s][w] = b.cacheArray[s][w]
            /\ c.validBits[s][w] = b.validBits[s][w]
            /\ c.LRUCounter[s][w] = b.LRUCounter[s][w]

\* C1: access returns hit exactly when the indexed set holds a valid way with
\* the address's tag; a hit adds one to hits and leaves misses, tags and valid
\* bits alone; a miss adds one to misses, leaves hits alone and leaves the tag
\* valid in the indexed set; a read and a write give the same result and state.
\* (Caches that have sets; the configuration without sets is C5.)
C1_AccessHitMiss ==
    (last.op = "access" /\ ~misconfigured(last.before)) =>
        LET b == last.before
            a == last.address
        IN  /\ last.hit <=> Present(b, a)
            /\ last.hit =>
                   /\ cache.hits = b.hits + 1
                   /\ cache.misses = b.misses
                   /\ cache.cacheArray = b.cacheArray
                   /\ cache.validBits = b.validBits
            /\ ~last.hit =>
                   /\ cache.misses = b.misses + 1
                   /\ cache.hits = b.hits
                   /\ Present(cache, a)
            /\ \A rw \in CacheOperations :
                   access(b, a, rw) = [cache |-> cache, hit |-> last.hit]

\* a hit in a cache that already took two misses
C1_Witness ==
    /\ last.op = "access"
    /\ last.hit
    /\ ~misconfigured(last.before)
    /\ last.before.misses >= 2

\* the miss of the last call found every way of the indexed set valid
FullSetMiss ==
    /\ last.op = "access"
    /\ ~last.hit
    /\ ~misconfigured(last.before)
    /\ \A w \in WaysOf(last.before) :
           last.before.validBits[index(last.before, last.address)][w]

\* C2: a miss in a set whose ways are all valid replaces exactly the way with
\* the smallest stamp of the set and leaves every other way of the cache as it
\* was.
C2_LruVictim ==
    FullSetMiss =>
        LET b   == last.before
            idx == index(b, last.address)
            tg  == tag(b, last.address)
        IN  \E v \in WaysOf(b) :
                /\ \A w \in WaysOf(b) \ {v} :
                       b.LRUCounter[idx][v] < b.LRUCounter[idx][w]
                /\ b.cacheArray[idx][v] # tg
                /\ cache.cacheArray[idx][v] = tg
                /\ cache.validBits[idx][v]
                /\ SameExcept(cache, b, idx, v)

\* a full-set miss whose victim is not way 0
C2_Witness ==
    /\ FullSetMiss
    /\ last.before.config.ways > 1
    /\ LET idx == index(last.before, last.address)
       IN  last.before.cacheArray[idx][0] = cache.cacheArray[idx][0]

\* C3: after every access on a cache that has sets, the way holding the
\* accessed tag has a stamp greater than that of every other way of its set, and
\* the clock went up by one; invalidate calls in between change nothing of this.
C3_FreshStampIsMax ==
    (last.op = "access" /\ ~misconfigured(last.before)) =>
        LET idx == index(cache, last.address)
            v   == hitWay(cache, idx, tag(cache, last.address), 0)
        IN  /\ cache.time = last.before.time + 1
            /\ v \in WaysOf(cache)
            /\ \A w \in WaysOf(cache) \ {v} :
                   cache.LRUCounter[idx][v] > cache.LRUCounter[idx][w]

\* a hit in a set that also has an invalidated way with a stale stamp
C3_Witness ==
    /\ last.op = "access"
    /\ last.hit
    /\ ~misconfigured(cache)
    /\ \E w \in WaysOf(cache) :
           /\ ~cache.validBits[index(cache, last.address)][w]
           /\ cache.LRUCounter[index(cache, last.address)][w] > 0

\* C4: invalidate(addr) directly followed by access(addr) misses: misses goes
\* up by one and hits stays.
C4_InvalidateThenAccessMisses ==
    (last.op = "access" /\ last.afterInvalidate) =>
        /\ ~last.hit
        /\ cache.misses = last.before.misses + 1
        /\ cache.hits = last.before.hits

\* the access followed an invalidate that left the address's tag in a way that
\* had been valid (stamped) and is invalid now
C4_Witness ==
    /\ last.op = "access"
    /\ last.afterInvalidate
    /\ ~misconfigured(last.before)
    /\ LET b   == last.before
           idx == index(b, last.address)
       IN  \E w \in WaysOf(b) :
               /\ ~b.validBits[idx][w]
               /\ b.cacheArray[idx][w] = tag(b, last.address)
               /\ b.LRUCounter[idx][w] > 0
               /\ b.hits > 0

\* C5 as stated: on a cache with zero sets or zero ways, access returns miss
\* and changes no field of the cache, the counters included.
C5_DegenerateNoSideEffect ==
    (last.op = "access" /\ misconfigured(last.before)) =>
        /\ ~last.hit
        /\ cache = last.before

\* C5 amended: on a cache with zero sets or zero ways, access returns miss and
\* changes nothing but the misses counter, which goes up by one.
C5_DegenerateCountsMiss ==
    (last.op = "access" /\ misconfigured(last.before)) =>
        /\ ~last.hit
        /\ cache = [last.before EXCEPT !.misses = @ + 1]

\* the second access to a cache without sets
C5_Witness ==
    /\ last.op = "access"
    /\ misconfigured(last.before)
    /\ last.before.misses = 1

\* C6: invalidate clears the valid bit of the valid way of the indexed set
\* that holds the address's tag and changes nothing else; with no such way the
\* cache is unchanged.
C6_InvalidateFrame ==
    (last.op = "invalidate") =>
        LET b == last.before
            a == last.address
        IN  /\ cache.hits = b.hits
            /\ cache.misses = b.misses
            /\ cache.time = b.time
            /\ cache.cacheArray = b.cacheArray
            /\ cache.LRUCounter = b.LRUCounter
            /\ cache.config = b.config
            /\ ~Present(b, a) => cache = b
            /\ Present(b, a) =>
                   /\ ~Present(cache, a)
                   /\ \A s \in DOMAIN b.validBits : \A w \in WaysOf(b) :
                          cache.validBits[s][w] # b.validBits[s][w] =>
                              /\ s = index(b, a)
                              /\ b.validBits[s][w]
                              /\ b.cacheArray[s][w] = tag(b, a)

\* an invalidate that cleared one way of a set and left another way valid
C6_Witness ==
    /\ last.op = "invalidate"
    /\ Present(last.before, last.address)
    /\ \E w \in WaysOf(cache) :
           cache.validBits[index(cache, last.address)][w]

(***************************************************************************)
(* Properties of runCycles                                                 *)
(***************************************************************************)
\* C7: the k-th snapshot written (counting from 0) carries cycle = k: the
\* cycle field of the last snapshot written equals the number of snapshots
\* written before it, whatever calls of runCycles produced them
C7_SnapshotCycleIsIndex ==
    output.count > 0 => output.pipeState.cycle = output.count - 1

\* a fourth snapshot written in the middle of a runCycles(2) that followed
\* other calls
C7_Witness ==
    /\ output.count = 4
    /\ call.state = "running" /\ call.cycles = 2 /\ call.count = 1

\* C8: when runCycles(n) returns it has written exactly one snapshot for
\* each iteration it executed, for every n, and none without an iteration
C8_OneSnapshotPerTick ==
    call.state = "returned" => call.dumps = call.count

\* the latches IF, ID, EX, MEM, the PC and loadStallCount of G and H agree
SameFrozen(G, H) ==
    /\ G.pipelineInfo.ifInst = H.pipelineInfo.ifInst
    /\ G.pipelineInfo.idInst = H.pipelineInfo.idInst
    /\ G.pipelineInfo.exInst = H.pipelineInfo.exInst
    /\ G.pipelineInfo.memInst = H.pipelineInfo.memInst
    /\ G.PC = H.PC
    /\ G.loadStallCount = H.loadStallCount

\* C9: the iteration whose D-cache access misses leaves dCacheStallCycles at
\* the D-cache missLatency L with the memory instruction in MEM; an iteration
\* is a freeze exactly when it starts with dCacheStallCycles > 0; a freeze
\* leaves IF, ID, EX, MEM, PC and loadStallCount as they were and takes one
\* off dCacheStallCycles; and the first iteration after a miss that is not a
\* freeze comes after exactly L freezes
C9_DMissFreeze ==
    /\ obs.dMiss =>
           /\ dCacheStallCycles = dCache.config.missLatency
           /\ needDataOf(pipelineInfo.memInst)
           /\ pipelineInfo.memInst.instruction =
                  obs.before.pipelineInfo.exInst.instruction
    /\ obs.kind # "none" =>
           (obs.kind = "dStall" <=> obs.before.dCacheStallCycles > 0)
    /\ obs.kind = "dStall" =>
           /\ SameFrozen(Globals, obs.before)
           /\ dCacheStallCycles = obs.before.dCacheStallCycles - 1
           /\ obs.open /\ obs.run <= obs.latency
    /\ (obs.kind \notin {"none", "dStall"} /\ obs.resumed) =>
           obs.resumedRun = obs.resumedLatency

\* the stages advance again after the two freezes of a D-miss of latency 2
C9_Witness ==
    /\ obs.kind = "normal" /\ obs.resumed
    /\ obs.resumedLatency = 2 /\ obs.resumedRun = 2
    /\ pipelineInfo.wbInst.readsMem

\* C10: in every freeze iteration the WB latch is a BUBBLE and nothing
\* retires
C10_FreezeWritesBackBubble ==
    obs.kind = "dStall" =>
        /\ pipelineInfo.wbInst.isNop
        /\ pipelineInfo.wbInst.status = "BUBBLE"
        /\ simulator.din = obs.before.simulator.din

(***************************************************************************)
(* Properties of the cache stalls                                          *)
(***************************************************************************)
\* accesses the D-cache has recorded
DAccesses(G) == G.dCache.hits + G.dCache.misses

\* C11: the D-cache records exactly one access in an iteration that moves a
\* load or store with an address below MEMORY_SIZE from EX to MEM, and none
\* in any other iteration: not in a D-miss freeze, not in the iteration of a
\* memory exception
C11_OneDAccessPerMemInstruction ==
    obs.kind # "none" =>
        LET ex    == obs.before.pipelineInfo.exInst
            moves == /\ obs.before.dCacheStallCycles = 0
                     /\ (ex.readsMem \/ ex.writesMem)
                     /\ ex.memAddress < MEMORY_SIZE
        IN  DAccesses(Globals) - DAccesses(obs.before) =
                IF moves THEN 1 ELSE 0

\* the second freeze after the miss of a store: still one access recorded
C11_Witness ==
    /\ obs.kind = "dStall" /\ obs.run = 2
    /\ pipelineInfo.memInst.writesMem
    /\ DAccesses(Globals) = 1

\* C12: an iteration that starts with iCacheStallCycles > 0, without freeze
\* or exception, republishes the IF latch, makes no I-cache access, takes one
\* off iCacheStallCycles and publishes a BUBBLE in ID
C12_IMissStallBubblesID ==
    (obs.kind = "normal" /\ obs.before.iCacheStallCycles > 0) =>
        /\ pipelineInfo.ifInst = obs.before.pipelineInfo.ifInst
        /\ iCache = obs.before.iCache
        /\ iCacheStallCycles = obs.before.iCacheStallCycles - 1
        /\ pipelineInfo.idInst.isNop
        /\ pipelineInfo.idInst.status = "BUBBLE"

\* C13: a D-miss freeze that starts with iCacheStallCycles > 0 takes one off
\* iCacheStallCycles
C13_IMissTicksInFreeze ==
    (obs.kind = "dStall" /\ obs.before.iCacheStallCycles > 0) =>
        iCacheStallCycles = obs.before.iCacheStallCycles - 1

(***************************************************************************)
(* Properties of the hazard stalls                                         *)
(***************************************************************************)
\* the iteration stalled IF and ID and bubbled EX: IF and PC as before, the
\* instruction of ID still in ID, a BUBBLE in EX
Stalled ==
    /\ pipelineInfo.ifInst = obs.before.pipelineInfo.ifInst
    /\ PC = obs.before.PC
    /\ pipelineInfo.idInst.PC = obs.before.pipelineInfo.idInst.PC
    /\ pipelineInfo.idInst.instruction =
           obs.before.pipelineInfo.idInst.instruction
    /\ pipelineInfo.exInst.isNop
    /\ pipelineInfo.exInst.status = "BUBBLE"

\* the instruction in ID before the iteration is a control instruction
ControlInID ==
    obs.before.pipelineInfo.idInst.opcode \in
        {"OP_BRANCH", "OP_JAL", "OP_JALR"}

\* ID before the iteration reads the register EX writes, which is not x0
ReadsExRd ==
    LET id == obs.before.pipelineInfo.idInst
        ex == obs.before.pipelineInfo.exInst
    IN  /\ ex.writesRd /\ ex.rd # 0
        /\ \/ id.readsRs1 /\ id.rs1 = ex.rd
           \/ id.readsRs2 /\ id.rs2 = ex.rd

\* C14: in an iteration without freeze or exception that starts with
\* stallCyclesCount = 0, the load-use stall is taken exactly when EX holds a
\* load writing rd # 0, ID holds no control instruction, and ID reads rd as
\* rs1, or as rs2 while not being a store; the stall leaves IF, ID and PC as
\* they were, puts a BUBBLE in EX and adds one to loadStallCount
C14_LoadUseStall ==
    (obs.kind = "normal" /\ obs.before.stallCyclesCount = 0) =>
        LET id == obs.before.pipelineInfo.idInst
            ex == obs.before.pipelineInfo.exInst
            expected ==
                /\ ex.readsMem /\ ex.writesRd /\ ex.rd # 0
                /\ ~ControlInID
                /\ \/ id.readsRs1 /\ id.rs1 = ex.rd
                   \/ /\ id.readsRs2 /\ id.rs2 = ex.rd
                      /\ ~(id.writesMem /\ ~id.readsMem)
        IN  /\ (obs.rule = "loadUse") <=> expected
            /\ expected =>
                   /\ Stalled
                   /\ pipelineInfo.idInst = id
                   /\ loadStallCount = obs.before.loadStallCount + 1
            /\ (~expected /\ ~ControlInID) =>
                   /\ loadStallCount = obs.before.loadStallCount
                   /\ obs.rule = "none"

\* a store stalled on the address register a load is about to write
C14_Witness ==
    /\ obs.kind = "normal" /\ obs.rule = "loadUse"
    /\ pipelineInfo.idInst.writesMem
    /\ loadStallCount = 1

\* C15: a load-branch stall holds the control instruction in ID, with IF
\* held and a BUBBLE in EX, for two iterations (freezes not counted): the
\* first sets stallCyclesCount to 1 and adds one to loadStallCount, the second
\* takes stallCyclesCount to 0 and adds nothing; in the iteration after them
\* the control instruction leaves ID, and loadStallCount is still one more
\* than before the stall
C15_LoadBranchStall ==
    obs.kind \notin {"none", "dStall"} =>
        /\ (obs.before.stallCyclesCount = 0 /\ obs.kind = "normal"
            /\ ControlInID /\ ReadsExRd
            /\ obs.before.pipelineInfo.exInst.readsMem)
               => obs.rule = "loadBranch"
        /\ obs.rule = "loadBranch" =>
               /\ Stalled
               /\ stallCyclesCount = 1
               /\ loadStallCount = obs.lbCount + 1
        /\ obs.prevLb = 1 => obs.rule = "second"
        /\ obs.rule = "second" =>
               /\ obs.prevLb = 1
               /\ Stalled
               /\ obs.before.stallCyclesCount = 1 /\ stallCyclesCount = 0
               /\ loadStallCount = obs.lbCount + 1
        /\ obs.prevLb = 2 =>
               /\ obs.rule = "none"
               /\ loadStallCount = obs.lbCount + 1
               /\ \/ pipelineInfo.idInst.isNop
                  \/ pipelineInfo.idInst.PC #
                         obs.before.pipelineInfo.idInst.PC

\* C16: a control instruction in ID reading the rd # 0 of an ALU instruction
\* in EX stalls IF and ID and bubbles EX, leaves loadStallCount as it was, and
\* the iteration after it (freezes not counted) stalls on no hazard
C16_ArithBranchStall ==
    obs.kind \notin {"none", "dStall"} =>
        /\ (obs.before.stallCyclesCount = 0 /\ obs.kind = "normal"
            /\ ControlInID /\ ReadsExRd
            /\ obs.before.pipelineInfo.exInst.doesArithLogic)
               => obs.rule = "arithBranch"
        /\ obs.rule = "arithBranch" =>
               /\ Stalled
               /\ loadStallCount = obs.before.loadStallCount
               /\ stallCyclesCount = 0
        /\ obs.prevRule = "arithBranch" => obs.rule = "none"

\* a jalr has left ID the iteration after its one-cycle stall
C16_Witness ==
    /\ obs.kind = "normal" /\ obs.prevRule = "arithBranch"
    /\ pipelineInfo.exInst.opcode = "OP_JALR"
    /\ loadStallCount = 0

\* C18: loadStallCount moves only by one, only in an iteration that takes
\* the load-use stall or the first cycle of a load-branch stall, and only
\* for a load in EX that is another instruction than the one in ID: never in
\* a freeze, in the second cycle of a load-branch stall, for an arith-branch
\* stall, or for an instruction against a copy of itself
C18_LoadStallCountCountsPairs ==
    (obs.kind # "none" /\ loadStallCount # obs.before.loadStallCount) =>
        LET id == obs.before.pipelineInfo.idInst
            ex == obs.before.pipelineInfo.exInst
        IN  /\ loadStallCount = obs.before.loadStallCount + 1
            /\ obs.kind = "normal"
            /\ obs.rule \in {"loadUse", "loadBranch"}
            /\ ex.readsMem
            /\ ~(ex.PC = id.PC /\ ex.instruction = id.instruction)

(***************************************************************************)
(* Properties of the forwarding                                            *)
(***************************************************************************)
\* EX before the iteration holds a store reading rs2 # 0 and WB before the
\* iteration holds a load writing that register
StoreAfterLoadInWB ==
    LET ex == obs.before.pipelineInfo.exInst
        wb == obs.before.pipelineInfo.wbInst
    IN  /\ ex.writesMem /\ ~ex.readsMem /\ ex.readsRs2 /\ ex.rs2 # 0
        /\ wb.readsMem /\ wb.writesRd /\ wb.rd = ex.rs2

ReferenceOperand(a) ==
    LET ex  == a.exPrev
        mem == a.memPrev
        fromEx      == ex.writesRd /\ ex.rd = a.rs /\ ex.doesArithLogic
        fromMemLoad == mem.writesRd /\ mem.rd = a.rs /\ mem.readsMem
        fromMemAlu  == mem.writesRd /\ mem.rd = a.rs /\ mem.doesArithLogic
    IN  CASE ~a.readsRs \/ a.rs = 0 -> a.opVal
          [] a.readsRs /\ a.rs # 0 /\ fromEx -> ex.arithResult
          [] a.readsRs /\ a.rs # 0 /\ ~fromEx /\ fromMemLoad -> mem.memResult
          [] a.readsRs /\ a.rs # 0 /\ ~fromEx /\ ~fromMemLoad /\ fromMemAlu
               -> mem.arithResult
          [] OTHER -> a.opVal

\* C19: for every source register and every content of EX and MEM,
\* forwarding leaves the operand unchanged when the register is not read or
\* is x0, and else selects the ALU result of EX, then the loaded value of
\* MEM, then the ALU result of MEM, then the unchanged operand
C19_ForwardingSelection ==
    (applied.fn = "forwarding" /\ applied.done) =>
        applied.result = ReferenceOperand(applied)

\* EX and MEM both write the register read, MEM as a load: the ALU result of
\* EX is taken
C19_Witness ==
    /\ applied.fn = "forwarding" /\ applied.done
    /\ applied.readsRs /\ applied.rs = 1
    /\ applied.exPrev.writesRd /\ applied.exPrev.rd = 1
    /\ applied.exPrev.doesArithLogic
    /\ applied.memPrev.writesRd /\ applied.memPrev.rd = 1
    /\ applied.memPrev.readsMem
    /\ applied.result = 11

ResolvedNextPC ==
    simNextPCResolution(obs.before.simulator,
        forwardBoth(obs.before.pipelineInfo.idInst,
                    obs.before.pipelineInfo.exInst,
                    obs.before.pipelineInfo.memInst)).nextPC

\* the iteration resolved a control instruction in ID as taken: no freeze,
\* no memory exception, no hazard stall, no I-miss stall
TakenBranchResolves ==
    /\ obs.kind \in {"normal", "illegal"}
    /\ ControlInID
    /\ obs.rule = "none"
    /\ obs.before.iCacheStallCycles = 0
    /\ ResolvedNextPC # obs.before.pipelineInfo.idInst.PC + 4

\* C21: the iteration that resolves a control instruction in ID as taken
\* publishes SQUASHED in ID and in IF, leaves iCacheStallCycles at 0 and PC at
\* the resolved nextPC, and what it puts in ID is a NOP, so that the
\* instruction IF held never reaches EX
C21_TakenBranchSquashes ==
    TakenBranchResolves =>
        /\ pipelineInfo.idInst.status = "SQUASHED"
        /\ pipelineInfo.ifInst.status = "SQUASHED"
        /\ pipelineInfo.idInst.isNop
        /\ pipelineInfo.idInst.instruction = "00000013"
        /\ iCacheStallCycles = 0
        /\ PC = ResolvedNextPC

(***************************************************************************)
(* Properties of the abandoned fetch                                       *)
(***************************************************************************)
\* C22: a redirect while an I-miss is outstanding invalidates the address of
\* the fetch in flight and does not carry its remaining latency on
\* (iCacheStallCycles is 0 after a hit of the fetch at the target, the miss
\* latency after a miss); the next fetch of the abandoned address misses
C22_RedirectAbandonsFetch ==
    /\ (obs.kind = "redirect" /\ obs.before.iCacheStallCycles > 0) =>
           /\ obs.invalidated = obs.before.PC
           /\ iCacheStallCycles = IF obs.fetchHit THEN 0
                                  ELSE iCache.config.missLatency
    /\ (obs.kind = "redirect" /\ obs.before.iCacheStallCycles = 0) =>
           obs.invalidated = -1
    /\ obs.refetched => ~obs.fetchHit

\* the abandoned address has been fetched again, and missed
C22_Witness ==
    /\ obs.refetched /\ ~obs.fetchHit
    /\ iCache.misses >= 2
    /\ iCacheStallCycles = iCache.config.missLatency

(***************************************************************************)
(* Properties of the exceptions                                            *)
(***************************************************************************)
\* EX before the iteration holds a load or store whose address is not below
\* MEMORY_SIZE, and no D-miss stall holds the pipeline
MemoryException ==
    LET ex == obs.before.pipelineInfo.exInst
    IN  /\ obs.kind # "none"
        /\ obs.before.dCacheStallCycles = 0
        /\ (ex.readsMem \/ ex.writesMem)
        /\ ex.memAddress >= MEMORY_SIZE

\* C23: the iteration of a memory exception publishes SQUASHED NOPs in MEM,
\* EX, ID and IF, clears both cache stalls, leaves PC at 0x8000, makes no
\* D-cache access and no memory read or write for the excepting instruction,
\* writes back the instruction MEM held, and has status ERROR
C23_MemoryException ==
    MemoryException =>
        LET wb == simWB(obs.before.simulator, obs.before.pipelineInfo.memInst)
        IN  /\ obs.kind = "memError"
            /\ \A l \in {"memInst", "exInst", "idInst", "ifInst"} :
                   /\ pipelineInfo[l].status = "SQUASHED"
                   /\ pipelineInfo[l].isNop
            /\ iCacheStallCycles = 0 /\ dCacheStallCycles = 0
            /\ PC = HandlerPC
            /\ dCache = obs.before.dCache
            /\ simulator.mem = obs.before.simulator.mem
            /\ pipelineInfo.wbInst = wb.inst
            /\ simulator = wb.sim
            /\ obs.status = "ERROR"

\* a load beyond the memory bound is squashed while the lui before it writes
\* x1 back and an I-miss that was outstanding is dropped
C23_Witness ==
    /\ MemoryException
    /\ obs.before.pipelineInfo.exInst.readsMem
    /\ obs.before.pipelineInfo.memInst.writesRd
    /\ simulator.reg[1] = MEMORY_SIZE
    /\ obs.before.simulator.reg[1] = 0
    /\ obs.before.iCacheStallCycles > 0
    /\ pipelineInfo.memInst.status = "SQUASHED"

\* the iteration decodes the IF latch (no freeze, no memory exception, no
\* hazard stall, no I-miss stall) and the instruction decoded is not legal
IllegalDecoded ==
    /\ obs.kind \in {"normal", "illegal"}
    /\ obs.rule = "none"
    /\ obs.before.iCacheStallCycles = 0
    /\ ~simID(obs.before.simulator, obs.before.pipelineInfo.ifInst).isLegal

\* C24: the iteration that decodes an illegal instruction has status ERROR,
\* its snapshot shows ID SQUASHED and the IF PC 0x8000, and the instructions
\* EX and MEM held have moved to MEM and WB
C24_IllegalInstruction ==
    IllegalDecoded =>
        /\ obs.status = "ERROR"
        /\ output.pipeState.idStatus = "SQUASHED"
        /\ output.pipeState.ifPC = HandlerPC
        /\ output.pipeState.memInstr =
               obs.before.pipelineInfo.exInst.instruction
        /\ output.pipeState.wbInstr =
               obs.before.pipelineInfo.memInst.instruction

\* C25: the iteration that raises a memory or illegal-instruction exception
\* is the last of its call of runCycles, which returns ERROR, whatever the
\* cycles argument
C25_ExceptionEndsRun ==
    (obs.kind \in {"memError", "illegal"} /\ call.count > 0) =>
        /\ call.state = "returned"
        /\ call.status = "ERROR"

\* C26: an iteration that publishes a halt instruction in WB emits its
\* snapshot and is the last one: the call returns HALT, also when the same
\* iteration raises a memory exception for a younger instruction
C26_HaltEndsRun ==
    (obs.kind # "none" /\ call.count > 0 /\ pipelineInfo.wbInst.isHalt) =>
        /\ output.pipeState.wbInstr = "feedfeed"
        /\ call.dumps = call.count
        /\ call.state = "returned"
        /\ call.status = "HALT"

Latches ==
    {pipelineInfo.ifInst, pipelineInfo.idInst, pipelineInfo.exInst,
     pipelineInfo.memInst, pipelineInfo.wbInst}

C28_SquashedIsNop ==
    \A l \in Latches :
        l.status \in {"SQUASHED", "BUBBLE"} =>
            /\ l.instruction = "00000013"
            /\ l.isNop
            /\ ~l.writesRd /\ ~l.readsMem /\ ~l.writesMem
            /\ simMEM(simulator, l).sim = simulator
            /\ simWB(simulator, l).sim = simulator

C28_Witness ==
    /\ pipelineInfo.exInst.status = "BUBBLE"
    /\ pipelineInfo.wbInst.status = "SQUASHED"
    /\ simulator.din > 0

\* C29: an iteration that performs a new fetch publishes the IF latch as
\* SPECULATIVE when a control instruction (branch, JAL, JALR) sits in ID, and
\* as NORMAL otherwise (a fetch beyond the memory bound, which installs the
\* instruction at the handler address instead, is left aside)
C29_FetchStatus ==
    (obs.fetch /\ pipelineInfo.ifInst.PC # HandlerPC) =>
        pipelineInfo.ifInst.status =
            IF pipelineInfo.idInst.opcode \in {"OP_BRANCH", "OP_JAL", "OP_JALR"}
            THEN "SPECULATIVE" ELSE "NORMAL"

\* C30: a simulation started by initSimulator after another one has run in
\* the same process produces, iteration by iteration, the snapshots and the
\* statistics of the same simulation started from freshly loaded statics: no
\* stall counter and no loadStallCount is carried over
C30_RestartIsFresh ==
    obs.restarted =>
        /\ output.pipeState = obs.freshState
        /\ SimulationStats(Globals, cycleCount) =
               SimulationStats(obs.fresh, cycleCount)

\* C31: an iteration that is not a D-miss freeze and begins with
\* iCacheStallCycles = 0 records exactly one I-cache access, at the PC of the
\* instruction it places in the IF latch (stated for the iterations without
\* exception and without hazard stall)
C31_OneFetchPerCycle ==
    (/\ obs.kind = "normal" /\ obs.rule = "none"
     /\ obs.before.iCacheStallCycles = 0) =>
        /\ iCache.hits + iCache.misses =
               obs.before.iCache.hits + obs.before.iCache.misses + 1
        /\ iCache = access(obs.before.iCache, pipelineInfo.ifInst.PC,
                           "CACHE_READ").cache

\* the miss of the last call found an invalid way in the indexed set
InvalidWayMiss ==
    /\ last.op = "access"
    /\ ~last.hit
    /\ ~misconfigured(last.before)
    /\ \E w \in WaysOf(last.before) :
           ~last.before.validBits[index(last.before, last.address)][w]

\* C32: a miss in a set that has an invalid way installs the tag in the
\* lowest-numbered invalid way, also when invalidate made it invalid and it
\* lies between valid ways; every other way of the cache keeps its tag, valid
\* bit and stamp, so no valid way is evicted
C32_FillsFirstInvalidWay ==
    InvalidWayMiss =>
        LET b   == last.before
            idx == index(b, last.address)
        IN  \E v \in WaysOf(b) :
                /\ ~b.validBits[idx][v]
                /\ \A w \in WaysOf(b) : w < v => b.validBits[idx][w]
                /\ cache.cacheArray[idx][v] = tag(b, last.address)
                /\ cache.validBits[idx][v]
                /\ cache.LRUCounter[idx][v] = b.time + 1
                /\ SameExcept(cache, b, idx, v)

\* the miss filled way 1, which invalidate had cleared, between the valid
\* ways 0 and 2
C32_Witness ==
    /\ InvalidWayMiss
    /\ last.before.config.ways = 3
    /\ LET b   == last.before
           idx == index(b, last.address)
       IN  /\ b.validBits[idx][0]
           /\ ~b.validBits[idx][1]
           /\ b.validBits[idx][2]
           /\ b.LRUCounter[idx][1] > 0
           /\ cache.cacheArray[idx][1] = tag(b, last.address)

\* the iteration began with the IF latch squashed by a redirect: PC is the
\* next_pc the taken control instruction resolved to (the exceptions, which
\* also squash IF, leave PC at the handler address)
AfterRedirect ==
    /\ obs.kind = "normal"
    /\ obs.before.pipelineInfo.ifInst.status = "SQUASHED"
    /\ obs.before.PC # HandlerPC
    /\ obs.before.PC < MEMORY_SIZE

\* C33: the first fetch after a taken control instruction resolved is issued
\* at that instruction's next_pc: the decode of the squashed IF latch does not
\* overwrite the PC the redirect wrote
C33_FetchAtBranchTarget ==
    (AfterRedirect /\ obs.fetch) => pipelineInfo.ifInst.PC = obs.before.PC

\* ID before the iteration holds a store that reads, as its data register
\* rs2 only, the register the load in EX before the iteration writes
StoreDataAfterLoadInEX ==
    LET id == obs.before.pipelineInfo.idInst
        ex == obs.before.pipelineInfo.exInst
    IN  /\ obs.kind = "normal"
        /\ obs.before.stallCyclesCount = 0
        /\ ex.readsMem /\ ex.writesRd /\ ex.rd # 0
        /\ id.writesMem /\ ~id.readsMem
        /\ id.readsRs2 /\ id.rs2 = ex.rd
        /\ ~(id.readsRs1 /\ id.rs1 = ex.rd)

\* EX before the iteration holds such a store and MEM before the iteration
\* the load it follows
StoreDataAfterLoadInMEM ==
    LET ex  == obs.before.pipelineInfo.exInst
        mem == obs.before.pipelineInfo.memInst
    IN  /\ obs.kind = "normal"
        /\ mem.readsMem /\ mem.writesRd /\ mem.rd # 0
        /\ ex.writesMem /\ ~ex.readsMem
        /\ ex.readsRs2 /\ ex.rs2 = mem.rd
        /\ ~(ex.readsRs1 /\ ex.rs1 = mem.rd)

\* C34: a store that directly follows a load and reads the loaded register
\* as its data register only is not stalled (no hazard rule fires,
\* loadStallCount is unchanged), and the value it writes to memory is the
\* value the load read
C34_StoreAfterLoad ==
    /\ StoreDataAfterLoadInEX =>
           /\ obs.rule = "none"
           /\ loadStallCount = obs.before.loadStallCount
    /\ StoreDataAfterLoadInMEM =>
           memRead(simulator, obs.before.pipelineInfo.exInst.memAddress) =
               obs.before.pipelineInfo.memInst.memResult

\* the iteration held a decoded instruction in ID: a hazard rule or the
\* second load-branch cycle stalled ID, or an I-miss stall was in progress
HoldsID ==
    /\ obs.kind = "normal"
    /\ obs.rule # "none" \/ obs.before.iCacheStallCycles > 0
    /\ ~obs.before.pipelineInfo.idInst.isNop

\* C35: an iteration that republishes the instruction of ID (hazard stall,
\* second load-branch cycle, I-miss stall) publishes a BUBBLE in EX, not a
\* copy of the held instruction, so that every decoded instruction is issued
\* to EX at most once
C35_IssuedOnce ==
    HoldsID =>
        /\ pipelineInfo.idInst.instruction =
               obs.before.pipelineInfo.idInst.instruction
        /\ pipelineInfo.exInst.status = "BUBBLE"
        /\ pipelineInfo.exInst.isNop

\* the iteration passed the instruction of MEM to simWB: it is the new WB
\* latch and the count of retired instructions went up
WrittenBack ==
    /\ pipelineInfo.wbInst = obs.before.pipelineInfo.memInst
    /\ simulator.din = obs.before.simulator.din + 1

\* C36: an instruction in MEM is passed to simWB in the iteration in which it
\* leaves the MEM latch and in no other: not in a D-miss freeze, which holds
\* it in MEM, and always when the MEM latch is overwritten, so that every
\* instruction that enters MEM is written back exactly once
C36_WrittenBackOnce ==
    (/\ obs.kind # "none"
     /\ ~obs.before.pipelineInfo.memInst.isNop
     /\ obs.before.pipelineInfo.memInst.isLegal) =>
        (WrittenBack <=> obs.kind # "dStall")

(***************************************************************************)
(* The simulator driven by runTillHalt (part_001)                          *)
(***************************************************************************)
\* the longest run of runTillHalt that is followed
MaxTicks == 16

\* runCycles has returned HALT or ERROR: runTillHalt leaves its loop
RunOver == call.state = "returned" /\ call.status \in {"HALT", "ERROR"}

\* one turn of the loop of runTillHalt: runCycles(1), which makes one
\* iteration from status = SUCCESS and returns the status it leaves
RunTillHalt ==
    /\ call.state # "running"
    /\ ~RunOver
    /\ cycleCount < MaxTicks
    /\ LET r == cycle(Globals, "SUCCESS")
       IN  /\ Becomes(r.S)
           /\ cycleCount' = cycleCount + 1
           /\ output' = [count |-> output.count + 1,
                         pipeState |-> pipeStateOf(cycleCount,
                                                   r.S.pipelineInfo)]
           /\ call' = [state |-> "returned", cycles |-> 1, count |-> 1,
                       status |-> r.status, dumps |-> 1]
           /\ obs' = observe(obs, Globals, r)
    /\ UNCHANGED <<cacheVars, stageVars, halted>>

\* RunTillHalt can make a turn: its guard (cycle is total)
CanRunTillHalt == call.state # "running" /\ ~RunOver /\ cycleCount < MaxTicks

\* a turn of the loop as cycleCount shows it: the steps that satisfy it are
\* the RunTillHalt steps, and it is enabled exactly when RunTillHalt is
Turn == CanRunTillHalt /\ cycleCount' = cycleCount + 1

\* while (true) makes the next turn as long as there is one to make: weak
\* fairness of the loop turn
SpecTillHalt ==
    /\ InitCycle
    /\ [][RunTillHalt]_vars
    /\ WF_cycleCount(Turn)

\* C37: no stall is permanent. From every state of a run of runTillHalt that
\* has not returned HALT or ERROR, each of dCacheStallCycles,
\* iCacheStallCycles and stallCyclesCount that is above 0 returns to 0, and
\* an iteration in which IF makes a new fetch comes, unless the run returns
\* HALT or ERROR first. The states taken are those that leave the followed
\* run the iterations the longest interleaving of hazard stalls, I-misses and
\* D-misses of these latencies needs (2, 8, 3 and 10).
C37_NoPermanentStall ==
    /\ (dCacheStallCycles > 0 /\ ~RunOver /\ cycleCount + 2 <= MaxTicks)
           ~> (dCacheStallCycles = 0 \/ RunOver)
    /\ (iCacheStallCycles > 0 /\ ~RunOver /\ cycleCount + 8 <= MaxTicks)
           ~> (iCacheStallCycles = 0 \/ RunOver)
    /\ (stallCyclesCount > 0 /\ ~RunOver /\ cycleCount + 3 <= MaxTicks)
           ~> (stallCyclesCount = 0 \/ RunOver)
    /\ \A n \in 0 .. (MaxTicks - 10) :
           (cycleCount = n /\ ~RunOver)
               ~> ((cycleCount > n /\ obs.fetch) \/ RunOver)

\* a load-use stall during an I-miss in the iteration whose load misses in
\* the D-cache
C37_Witness ==
    /\ ~RunOver
    /\ cycleCount + 10 <= MaxTicks
    /\ obs.rule = "loadUse"
    /\ obs.dMiss
    /\ dCacheStallCycles > 0
    /\ iCacheStallCycles > 0

(***************************************************************************)
(* A stand-alone cache driven by access calls alone, with the addresses    *)
(* of the calls kept in call order (cache.cpp)                             *)
(***************************************************************************)
InitAccesses ==
    \E config \in CacheConfigs \cup {CacheConfig(3, 1, 3, 1)} :
        /\ cache = Cache(config)
        /\ last = [op |-> "new", address |-> 0, hit |-> FALSE,
                   afterInvalidate |-> FALSE, before |-> Cache(config),
                   calls |-> <<>>]
        /\ NoSimulator
        /\ applied = "nullptr"

AccessLogged(address, readWrite) ==
    /\ cache.hits + cache.misses < MaxAccesses
    /\ LET r == access(cache, address, readWrite)
       IN  /\ cache' = r.cache
           /\ last' = [op |-> "access", address |-> address, hit |-> r.hit,
                       afterInvalidate |-> FALSE, before |-> cache,
                       calls |-> Append(last.calls, address)]
    /\ UNCHANGED <<cycleVars, stageVars>>

NextAccesses ==
    \E address \in Addresses, readWrite \in CacheOperations :
        AccessLogged(address, readWrite)

SpecAccesses == InitAccesses /\ [][NextAccesses]_vars

\* the reference: the tags of set s in calls[1 .. n], most recent first,
\* until max distinct ones are found (seen: those found so far)
RECURSIVE RecentTags(_, _, _, _, _, _)
RecentTags(c, calls, s, n, max, seen) ==
    IF n = 0 \/ Cardinality(seen) >= max THEN seen
    ELSE RecentTags(c, calls, s, n - 1, max,
                    IF index(c, calls[n]) = s
                    THEN seen \cup {tag(c, calls[n])} ELSE seen)

ValidWays(c, s) == { w \in WaysOf(c) : c.validBits[s][w] }

\* C38: after any sequence of access calls (no invalidate) the valid tags of
\* each set are exactly the min(ways, d) most recently accessed distinct tags
\* of the set, one valid way each, d being the number of distinct tags
\* accessed in the set
C38_TrueLRU ==
    \A s \in DOMAIN cache.cacheArray :
        LET ref == RecentTags(cache, last.calls, s, Len(last.calls),
                              cache.config.ways, {})
        IN  /\ { cache.cacheArray[s][w] : w \in ValidWays(cache, s) } = ref
            /\ Cardinality(ValidWays(cache, s)) = Cardinality(ref)

\* a two-way set after tags t, u, t, v: u, not the first-installed t, is gone
C38_Witness ==
    /\ ~misconfigured(cache)
    /\ cache.config.ways = 2
    /\ Len(last.calls) = 4
    /\ \A n \in 1 .. 4 : index(cache, last.calls[n]) = index(cache, last.calls[1])
    /\ tag(cache, last.calls[3]) = tag(cache, last.calls[1])
    /\ tag(cache, last.calls[2]) # tag(cache, last.calls[1])
    /\ tag(cache, last.calls[4]) # tag(cache, last.calls[1])
    /\ tag(cache, last.calls[4]) # tag(cache, last.calls[2])
    /\ Present(cache, last.calls[1])
    /\ ~Present(cache, last.calls[2])

\* C39: after any sequence of access and invalidate calls, no set holds two
\* valid ways with the same tag
C39_NoDuplicateTags ==
    \A s \in DOMAIN cache.cacheArray :
        \A w \in ValidWays(cache, s), v \in ValidWays(cache, s) :
            w # v => cache.cacheArray[s][w] # cache.cacheArray[s][v]

\* the tag of a valid way is also the stale tag of a way that invalidate
\* cleared, after an access that installed it
C39_Witness ==
    /\ last.op = "access"
    /\ ~last.hit
    /\ \E s \in DOMAIN cache.cacheArray :
           \E w \in ValidWays(cache, s), v \in WaysOf(cache) \ ValidWays(cache, s) :
               /\ cache.cacheArray[s][w] = cache.cacheArray[s][v]
               /\ cache.LRUCounter[s][v] > 0
               /\ cache.LRUCounter[s][w] = cache.time

====
